---- MODULE Spec2Model ----
(***************************************************************************)
(* The recording pipeline of the meeting client: the OPFS storage worker   *)
(* (recordingWorker.ts), the bridge that talks to it (workerStorage.ts)    *)
(* and the recording hook (useMeetingRecorder) that drives both.           *)
(*                                                                         *)
(* Two specifications share the storage worker:                            *)
(*   SpecWorker  a client posts arbitrary requests to one storage worker;  *)
(*   Spec        the recording hook drives one storage worker per session  *)
(*               through the bridge.                                       *)
(*                                                                         *)
(* The worker's message handler is async, but every await in it is on the  *)
(* file system of the same worker: a streamed write is queued by the       *)
(* stream in call order and a synchronous write completes before the call  *)
(* returns, so a handler is modelled as one step taken in arrival order.   *)
(***************************************************************************)
EXTENDS Integers, Sequences, FiniteSets, TLC

\* ------------------------------------------------------------------ bounds
MaxSessions == 2

MaxRequests == 4

MaxQueue == 1

MaxChunks == 1

MaxBlobLen == 1

MaxChunkLen == 2

MaxFaults == 1

MaxStops == 2

MaxTracks == 1

MaxStrays == 1

MaxRegular == 7

MaxFrames == 3

MaxParticipants == 2

MaxTrackList == 2

MaxCalls == 3

MaxTimestamp == 2

MaxStoreFaults == 1

MaxFlags == 2

\* --------------------------------------------------------------- variables
VARIABLES
    hasCreateWritable,   \* platform: FileSystemFileHandle.createWritable exists
    hasCreateSyncAccessHandle, \* platform: createSyncAccessHandle exists
    opfs,                \* origin-private file system: name -> [exists, data]
    storage,             \* w -> fields of the worker's OPFSWorkerStorage
    alive,               \* w -> the worker context exists (created, not terminated)
    toWorker,            \* w -> requests posted to the worker, not yet handled
    fromWorker,          \* w -> responses posted by the worker, not yet received
    faults,              \* number of write failures the platform has produced
    sent,                \* SpecWorker: number of requests the client has posted
    sessionLog,          \* w -> history of the session (accepted bytes, flags)
    isRecording,         \* recordingState.isRecording
    mediaRecorderRef,    \* mediaRecorderRef.current: 0 (null) or the session's encoder
    workerStorageRef,    \* workerStorageRef.current: 0 (null) or the session's storage
    startPc,             \* where the running startRecording call is suspended
    startResult,         \* how the latest startRecording call ended
    sessions,            \* number of WorkerRecordingStorage instances created
    pending,             \* w -> the bridge's pending requests
    nextId,              \* w -> the bridge's next correlation id
    encoder,             \* e -> the MediaRecorder of session e
    stops,               \* number of stopRecording calls made
    stopCalls,           \* k -> the k-th stopRecording call and its promise
    renderWorkerRef,     \* renderWorkerRef.current: 0 (null) or the session's render worker
    audioContextRef,     \* audioContextRef.current: 0 (null) or the session's AudioContext
    durationIntervalRef, \* durationIntervalRef.current: 0 (undefined) or the session's timer
    resources,           \* w -> what session w created: render worker, AudioContext, timer
    frameReaders,        \* keys of frameReadersRef.current: the tracks being captured
    cleanupPc,           \* where the unmount cleanup (handleCleanup) stands
    settled,             \* SpecBridge: call id -> how the call's promise was settled
    strays,              \* SpecBridge: responses delivered that answer no request
    dropped,             \* SpecBridge: responses the bridge ignored
    pairOut,             \* SpecPair: w -> what the latest call returned under strategy w
    canvas,              \* render worker: state.canvas / state.ctx are set
    renderState,         \* render worker: state.renderState
    videoFrames,         \* render worker: state.videoFrames, key -> frame (0: no entry)
    renderInterval,      \* render worker: state.renderInterval is not null
    liveTimers,          \* render worker: intervals set and not cleared
    canvasOut,           \* what the canvas shows: the latest paint
    frameKey,            \* frame -> the key it was delivered for (<<>>: not delivered)
    released,            \* frame -> number of times close() was called on it
    supportedTypes,      \* platform: the types MediaRecorder.isTypeSupported accepts
    recordingDetails,    \* the module-level { mimeType, extension }, once evaluated
    sessionDetails,      \* SpecCodec: w -> the details session w recorded with
    pagedParticipants,   \* the identities of the participants on the current page
    cameraTracks,        \* useTracks([Camera]): list of track references
    screenShareTracks,   \* useTracks([ScreenShare]): list of track references
    canProcess,          \* platform: supportsTrackProcessor()
    effectPending,       \* a dependency of the track-change effect has changed
    pumps,               \* track sid -> number of frame readers not cancelled
    store,               \* TelemetryService.store: the value under "telemetry"
    defaultTelemetry,    \* the object DEFAULT_TELEMETRY, which loadTelemetry hands out
    loginCalls,          \* history: userLogin calls since the last report
    logoutCalls,         \* history: userLogout calls since the last report
    storeFaults,         \* store.get / store.set calls that have thrown
    isAppVersionExtensionDisabled,   \* session.ts: module variable
    lastFlags            \* history: the argument of the latest updateFlags call

platformVars == <<hasCreateWritable, hasCreateSyncAccessHandle>>

teardownVars == <<renderWorkerRef, audioContextRef, durationIntervalRef, resources,
                  frameReaders, cleanupPc>>

hookVars == <<isRecording, mediaRecorderRef, workerStorageRef, startPc, startResult,
              sessions, pending, nextId, encoder, stops, stopCalls, teardownVars>>

bridgeVars == <<settled, strays, dropped>>

pairVars == <<pairOut>>

compositorVars == <<canvas, renderState, videoFrames, renderInterval, liveTimers, canvasOut,
                    frameKey, released>>

\* the variables only the specifications of the bridge, of the strategy pair and of
\* the render worker use
codecVars == <<supportedTypes, recordingDetails, sessionDetails>>

roomVars == <<pagedParticipants, cameraTracks, screenShareTracks, canProcess,
              effectPending, pumps>>

telemetryVars == <<store, defaultTelemetry, loginCalls, logoutCalls, storeFaults>>

flagVars == <<isAppVersionExtensionDisabled, lastFlags>>

restVars == <<roomVars, telemetryVars, flagVars>>

sideVars == <<bridgeVars, pairVars, compositorVars, codecVars, restVars>>

vars == <<hasCreateWritable, hasCreateSyncAccessHandle, opfs, storage, alive,
          toWorker, fromWorker, faults, sent, sessionLog, isRecording,
          mediaRecorderRef, workerStorageRef, startPc, startResult, sessions,
          pending, nextId, encoder, stops, stopCalls, teardownVars, sideVars>>

Workers == 1..MaxSessions

RecordingIds == 1..MaxSessions

Extensions == {"mp4", "webm"}

\* ------------------------------------------------------------- file system
\* `recording-${recordingId}.${fileExtension}`
FileName(recordingId, fileExtension) == <<"recording-", recordingId, ".", fileExtension>>

\* fileName = '' before init
NoName == <<>>

AllFileNames == {FileName(i, e) : i \in RecordingIds, e \in Extensions}

NoFile == [exists |-> FALSE, data |-> <<>>]

Max(a, b) == IF a >= b THEN a ELSE b

\* FileSystemSyncAccessHandle.write(buffer, {at}): the bytes replace the file's
\* bytes from offset at on; the file grows when the write ends past its end.
WriteAt(data, at, buffer) ==
    [i \in 1..Max(Len(data), at + Len(buffer)) |->
        IF i > at /\ i <= at + Len(buffer) THEN buffer[i - at]
        ELSE IF i <= Len(data) THEN data[i]
        ELSE 0]

\* root.getFileHandle(name, {create: true})
GetFileHandleCreate(fs, name) ==
    IF fs[name].exists THEN fs ELSE [fs EXCEPT ![name] = [exists |-> TRUE, data |-> <<>>]]

\* --------------------------------------------------------- storage worker
NoWritable == [open |-> FALSE, file |-> NoName, buf |-> <<>>, errored |-> FALSE]

\* unflushed: the bytes written through the handle that no flush has persisted
NoSyncHandle == [open |-> FALSE, file |-> NoName, unflushed |-> 0]

\* what FileSystemSyncAccessHandle.write leaves of the handle: n more bytes that
\* are not yet persisted
Written(h, n) == [h EXCEPT !.unflushed = @ + n]

\* FileSystemSyncAccessHandle.flush(): everything written is persisted
Flushed(h) == [h EXCEPT !.unflushed = 0]

\* field initialisers of class OPFSWorkerStorage
NewStorage ==
    [root |-> FALSE, fileHandle |-> NoName, writable |-> NoWritable,
     syncAccessHandle |-> NoSyncHandle, useSyncAPI |-> FALSE, filePosition |-> 0,
     fileName |-> NoName]

NoError == <<>>

NoData == [fileName |-> NoName]

\* outcome of a storage method: new fields, new file system, thrown error or not
Outcome(st, fs, err, ret) == [st |-> st, fs |-> fs, error |-> err, data |-> ret]

ErrNoWriteAPI == <<"No supported OPFS write API available in worker">>

ErrNoHandle == <<"No writable stream or sync handle available">>

ErrWrite == <<"write failed">>

ErrClose == <<"stream is errored">>

ErrNotFound == <<"NotFoundError">>

ErrUnknownType(type) == <<"Unknown message type: ", type>>

\* mutant: with no write API the worker falls back to buffering in memory
init_Fallback(st, fs, recordingId, fileExtension, canWritable, canSync) ==
    LET name == FileName(recordingId, fileExtension)
    IN  Outcome([st EXCEPT !.fileName = name, !.root = TRUE, !.fileHandle = name,
                           !.writable = [open |-> TRUE, file |-> name, buf |-> <<>>,
                                         errored |-> FALSE],
                           !.useSyncAPI = FALSE],
                GetFileHandleCreate(fs, name), NoError, NoData)

\* OPFSWorkerStorage.init
init(st, fs, recordingId, fileExtension, canWritable, canSync) ==
    LET name == FileName(recordingId, fileExtension)
        fs1 == GetFileHandleCreate(fs, name)
        st1 == [st EXCEPT !.fileName = name, !.root = TRUE, !.fileHandle = name]
    IN  IF canWritable
        THEN Outcome([st1 EXCEPT !.writable = [open |-> TRUE, file |-> name,
                                               buf |-> <<>>, errored |-> FALSE],
                                 !.useSyncAPI = FALSE],
                     fs1, NoError, NoData)
        ELSE IF canSync
        THEN Outcome([st1 EXCEPT !.syncAccessHandle = [open |-> TRUE, file |-> name,
                                                        unflushed |-> 0],
                                 !.useSyncAPI = TRUE,
                                 !.filePosition = 0],
                     fs1, NoError, NoData)
        ELSE Outcome(st1, fs1, ErrNoWriteAPI, NoData)

\* mutant: the random-access write does not advance the cursor
addChunk_NoAdvance(st, fs, chunkBuffer, fail) ==
    IF st.useSyncAPI /\ st.syncAccessHandle.open
    THEN IF fail
         THEN Outcome(st, fs, ErrWrite, NoData)
         ELSE LET f == st.syncAccessHandle.file
              IN  Outcome([st EXCEPT !.syncAccessHandle =
                                         Flushed(Written(@, Len(chunkBuffer)))],
                          [fs EXCEPT ![f].data = WriteAt(fs[f].data, st.filePosition,
                                                         chunkBuffer)],
                          NoError, NoData)
    ELSE IF st.writable.open
    THEN IF fail \/ st.writable.errored
         THEN Outcome([st EXCEPT !.writable.errored = TRUE], fs, ErrWrite, NoData)
         ELSE Outcome([st EXCEPT !.writable.buf = st.writable.buf \o chunkBuffer],
                      fs, NoError, NoData)
    ELSE Outcome(st, fs, ErrNoHandle, NoData)

\* mutant: the random-access write is not followed by a flush
addChunk_NoFlush(st, fs, chunkBuffer, fail) ==
    IF st.useSyncAPI /\ st.syncAccessHandle.open
    THEN IF fail
         THEN Outcome(st, fs, ErrWrite, NoData)
         ELSE LET f == st.syncAccessHandle.file
                  bytesWritten == Len(chunkBuffer)
              IN  Outcome([st EXCEPT !.filePosition = st.filePosition + bytesWritten,
                                         !.syncAccessHandle = Written(@, bytesWritten)],
                          [fs EXCEPT ![f].data = WriteAt(fs[f].data, st.filePosition,
                                                         chunkBuffer)],
                          NoError, NoData)
    ELSE IF st.writable.open
    THEN IF fail \/ st.writable.errored
         THEN Outcome([st EXCEPT !.writable.errored = TRUE], fs, ErrWrite, NoData)
         ELSE Outcome([st EXCEPT !.writable.buf = st.writable.buf \o chunkBuffer],
                      fs, NoError, NoData)
    ELSE Outcome(st, fs, ErrNoHandle, NoData)

\* OPFSWorkerStorage.addChunk; fail: the platform's write throws
addChunk(st, fs, chunkBuffer, fail) ==
    IF st.useSyncAPI /\ st.syncAccessHandle.open
    THEN IF fail
         THEN Outcome(st, fs, ErrWrite, NoData)
         ELSE LET f == st.syncAccessHandle.file
                  bytesWritten == Len(chunkBuffer)
              IN  Outcome([st EXCEPT !.filePosition = st.filePosition + bytesWritten,
                                         !.syncAccessHandle =
                                             Flushed(Written(@, bytesWritten))],
                          [fs EXCEPT ![f].data = WriteAt(fs[f].data, st.filePosition,
                                                         chunkBuffer)],
                          NoError, NoData)
    ELSE IF st.writable.open
    THEN IF fail \/ st.writable.errored
         THEN Outcome([st EXCEPT !.writable.errored = TRUE], fs, ErrWrite, NoData)
         ELSE Outcome([st EXCEPT !.writable.buf = st.writable.buf \o chunkBuffer],
                      fs, NoError, NoData)
    ELSE Outcome(st, fs, ErrNoHandle, NoData)

\* FileSystemWritableFileStream.close(): the streamed bytes replace the file
CommitWritable(fs, wr) == [fs EXCEPT ![wr.file] = [exists |-> TRUE, data |-> wr.buf]]

\* mutant: the handles are closed but the fields still name them
closeHandles_KeepHandle(st, fs) ==
    IF st.writable.open
    THEN IF st.writable.errored
         THEN Outcome(st, fs, ErrClose, NoData)
         ELSE Outcome(st, CommitWritable(fs, st.writable), NoError,
                      [fileName |-> st.fileName])
    ELSE Outcome(st, fs, NoError, [fileName |-> st.fileName])

\* OPFSWorkerStorage.closeHandles
closeHandles(st, fs) ==
    IF st.writable.open
    THEN IF st.writable.errored
         THEN Outcome(st, fs, ErrClose, NoData)
         ELSE Outcome([st EXCEPT !.writable = NoWritable],
                      CommitWritable(fs, st.writable), NoError,
                      [fileName |-> st.fileName])
    ELSE IF st.syncAccessHandle.open
    THEN Outcome([st EXCEPT !.syncAccessHandle = NoSyncHandle], fs, NoError,
                 [fileName |-> st.fileName])
    ELSE Outcome(st, fs, NoError, [fileName |-> st.fileName])

\* mutant: the entry is removed but fileHandle still names it
RemoveEntryStep_KeepHandle(st, fs) ==
    IF st.root /\ st.fileHandle # NoName
    THEN IF fs[st.fileName].exists
         THEN Outcome(st, [fs EXCEPT ![st.fileName] = NoFile], NoError, NoData)
         ELSE Outcome(st, fs, ErrNotFound, NoData)
    ELSE Outcome(st, fs, NoError, NoData)

\* the second half of clear: root.removeEntry(fileName), fileHandle = null
RemoveEntryStep(st, fs) ==
    IF st.root /\ st.fileHandle # NoName
    THEN IF fs[st.fileName].exists
         THEN Outcome([st EXCEPT !.fileHandle = NoName],
                      [fs EXCEPT ![st.fileName] = NoFile], NoError, NoData)
         ELSE Outcome(st, fs, ErrNotFound, NoData)
    ELSE Outcome(st, fs, NoError, NoData)

\* OPFSWorkerStorage.clear
clear(st, fs) ==
    IF st.writable.open
    THEN IF st.writable.errored
         THEN Outcome(st, fs, ErrClose, NoData)
         ELSE RemoveEntryStep([st EXCEPT !.writable = NoWritable],
                              CommitWritable(fs, st.writable))
    ELSE IF st.syncAccessHandle.open
    THEN RemoveEntryStep([st EXCEPT !.syncAccessHandle = NoSyncHandle], fs)
    ELSE RemoveEntryStep(st, fs)

\* OPFSWorkerStorage.close
close(st, fs) ==
    IF st.syncAccessHandle.open
    THEN Outcome([st EXCEPT !.syncAccessHandle = NoSyncHandle], fs, NoError, NoData)
    ELSE Outcome(st, fs, NoError, NoData)

\* ----------------------------------------------------------------- protocol
\* WorkerMessage.type
KnownTypes == {"init", "addChunk", "closeHandles", "clear", "close"}

\* types no case of the handler's switch names
UnknownTypes == {"finalize", "bogus"}

NoPayload == [recordingId |-> 0, fileExtension |-> "", chunkBuffer |-> <<>>]

Request(type, id, data) == [type |-> type, id |-> id, data |-> data]

\* WorkerResponse
Response(type, id, data, err) == [type |-> type, id |-> id, data |-> data, error |-> err]

\* mutant: a request of an unknown type is answered as if it had been executed
Dispatch_IgnoreUnknown(st, fs, msg, fail) ==
    CASE msg.type = "init" ->
            init(st, fs, msg.data.recordingId, msg.data.fileExtension,
                 hasCreateWritable, hasCreateSyncAccessHandle)
      [] msg.type = "addChunk" -> addChunk(st, fs, msg.data.chunkBuffer, fail)
      [] msg.type = "closeHandles" -> closeHandles(st, fs)
      [] msg.type = "clear" -> clear(st, fs)
      [] msg.type = "close" -> close(st, fs)
      [] OTHER -> Outcome(st, fs, NoError, NoData)

\* mutant: the switch names the case finalize instead of closeHandles
Dispatch_FinalizeName(st, fs, msg, fail) ==
    CASE msg.type = "init" ->
            init(st, fs, msg.data.recordingId, msg.data.fileExtension,
                 hasCreateWritable, hasCreateSyncAccessHandle)
      [] msg.type = "addChunk" -> addChunk(st, fs, msg.data.chunkBuffer, fail)
      [] msg.type = "finalize" -> closeHandles(st, fs)
      [] msg.type = "clear" -> clear(st, fs)
      [] msg.type = "close" -> close(st, fs)
      [] OTHER -> Outcome(st, fs, ErrUnknownType(msg.type), NoData)

\* the switch of self.onmessage: the method the request's type selects
Dispatch(st, fs, msg, fail) ==
    CASE msg.type = "init" ->
            init(st, fs, msg.data.recordingId, msg.data.fileExtension,
                 hasCreateWritable, hasCreateSyncAccessHandle)
      [] msg.type = "addChunk" -> addChunk(st, fs, msg.data.chunkBuffer, fail)
      [] msg.type = "closeHandles" -> closeHandles(st, fs)
      [] msg.type = "clear" -> clear(st, fs)
      [] msg.type = "close" -> close(st, fs)
      [] OTHER -> Outcome(st, fs, ErrUnknownType(msg.type), NoData)

\* mutant: the catch block's response does not carry the request's id
ResponseFor_NoIdOnError(msg, out) ==
    IF out.error = NoError
    THEN Response("success", msg.id, out.data, NoError)
    ELSE Response("error", 0, NoData, out.error)

\* the response self.onmessage posts for an outcome: success, or the catch's error
ResponseFor(msg, out) ==
    IF out.error = NoError
    THEN Response("success", msg.id, out.data, NoError)
    ELSE Response("error", msg.id, NoData, out.error)

\* history kept for the properties, per worker: whether an init was ever handled,
\* whether the last init succeeded, the bytes of the chunks accepted since the last
\* init, whether a chunk was refused while the session was open, and whether a
\* closeHandles / a clear has succeeded since the last init, and whether a clear
\* was ever handled on a cleared or never initialised session
NewLog == [everInit |-> FALSE, inited |-> FALSE, accepted |-> <<>>, refused |-> FALSE,
           finalized |-> FALSE, cleared |-> FALSE, reclear |-> FALSE]

LogAfter(lg, msg, out) ==
    CASE msg.type = "init" ->
            [everInit |-> TRUE, inited |-> out.error = NoError, accepted |-> <<>>,
             refused |-> FALSE, finalized |-> FALSE, cleared |-> FALSE,
             reclear |-> lg.reclear]
      [] msg.type = "addChunk" /\ out.error = NoError ->
            [lg EXCEPT !.accepted = lg.accepted \o msg.data.chunkBuffer]
      [] msg.type = "addChunk" /\ out.error # NoError /\ ~lg.finalized /\ ~lg.cleared ->
            [lg EXCEPT !.refused = TRUE]
      [] msg.type = "closeHandles" /\ out.error = NoError ->
            [lg EXCEPT !.finalized = TRUE]
      [] msg.type = "clear" /\ out.error = NoError ->
            [lg EXCEPT !.cleared = TRUE,
                       !.reclear = @ \/ lg.cleared \/ ~lg.everInit]
      [] OTHER -> lg

\* the i-th element of a queue taken out
Without(q, i) == SubSeq(q, 1, i - 1) \o SubSeq(q, i + 1, Len(q))

\* the body of self.onmessage for the i-th waiting request of worker w: run the
\* method, post one response
HandleRequest(w, i) ==
    /\ alive[w]
    /\ i \in 1..Len(toWorker[w])
    /\ LET msg == toWorker[w][i]
       IN  \E fail \in BOOLEAN :
             /\ fail => (msg.type = "addChunk" /\ faults < MaxFaults)
             /\ LET out == Dispatch(storage[w], opfs, msg, fail)
                IN  /\ storage' = [storage EXCEPT ![w] = out.st]
                    /\ opfs' = out.fs
                    /\ fromWorker' = [fromWorker EXCEPT
                                        ![w] = Append(@, ResponseFor(msg, out))]
                    /\ sessionLog' = [sessionLog EXCEPT ![w] = LogAfter(@, msg, out)]
                    /\ faults' = IF fail THEN faults + 1 ELSE faults
    /\ toWorker' = [toWorker EXCEPT ![w] = Without(@, i)]
    /\ UNCHANGED <<platformVars, sideVars, alive, sent, hookVars>>

\* mutant: requests are handled in any order, not in arrival order
onmessage_AnyOrder(w) == \E i \in 1..Len(toWorker[w]) : HandleRequest(w, i)

\* self.onmessage of worker w: requests are handled in arrival order
onmessage(w) == HandleRequest(w, 1)

\* MediaRecorder of a session: not created yet
NoEncoder == [state |-> "none", emitted |-> 0, size |-> 0, onstop |-> 0]

\* a stopRecording call not made yet
NoStopCall == [status |-> "none", branch |-> "none", result |-> "none", data |-> <<>>]

\* what a session has created and not released: nothing yet
NoResources == [render |-> FALSE, audio |-> "none", interval |-> FALSE]

\* the video tracks of the meeting, by track sid
Tracks == 1..MaxTracks

\* ids of the calls made through one bridge
CallIds == 1..MaxRequests

\* a call's promise, not settled
\* what a caller sees of one call: the error, and the bytes a read returned
NoObservation == [error |-> NoError, read |-> <<>>]

NotSettled == [kind |-> "pending", data |-> NoData, error |-> NoError, drops |-> 0,
               others |-> 0]

\* ------------------------------------------------------------ render worker
CANVAS_WIDTH == 1920

CANVAS_HEIGHT == 1080

GAP == 11

SIDEBAR_WIDTH == 320

PROFILE_COLORS == <<"#b9abff", "#88f189", "#ababf8", "#7bdcff", "#ff8a8a", "#ffb35f">>

MEET_BACKGROUND_COLORS ==
    <<"#413969", "#2b3e40", "#332f62", "#094a62", "#3d2a3d", "#523a2e">>

\* the number of sidebar tiles of the screen-share layout: the sidebar's capacity
SCREEN_SHARE_PAGE_SIZE == 6

Min(a, b) == IF a <= b THEN a ELSE b

\* the decimal digits of a number, as `${n}` writes them
RECURSIVE Digits(_)
Digits(n) == IF n < 10 THEN <<n>> ELSE Append(Digits(n \div 10), n % 10)

\* parseInt(digits, 10)
RECURSIVE ParseInt(_)
ParseInt(ds) ==
    IF ds = <<>> THEN 0 ELSE 10 * ParseInt(SubSeq(ds, 1, Len(ds) - 1)) + ds[Len(ds)]

\* `${prefix}${n}`, e.g. meet-background-3
ColorName(prefix, n) == <<prefix>> \o Digits(n)

\* name.match(/prefix(\d+)/) ? parseInt(match[1], 10) - 1 : 0
ColorIndexOf(name, prefix) ==
    IF Len(name) >= 2 /\ name[1] = prefix
    THEN ParseInt(SubSeq(name, 2, Len(name))) - 1
    ELSE 0

\* mutant: the colour name is read as a 0-based index
PaletteColor_ZeroBased(palette, name, prefix) ==
    palette[((ColorIndexOf(name, prefix) + 1) % Len(palette)) + 1]

\* palette[index % palette.length] of the index the colour name encodes
PaletteColor(palette, name, prefix) ==
    palette[(ColorIndexOf(name, prefix) % Len(palette)) + 1]

\* ParticipantInfo
ParticipantInfo(identity, participantIndex, isScreenShare, hasVideo, hasActiveAudio) ==
    [identity |-> identity, participantIndex |-> participantIndex,
     isScreenShare |-> isScreenShare, hasVideo |-> hasVideo,
     hasActiveAudio |-> hasActiveAudio]

\* the slot lists the hook hands over: an optional screen-share slot of participant
\* 1, then n regular slots with consecutive participant indices from base on
SlotList(n, share, base, hasVideo, hasActiveAudio) ==
    (IF share THEN <<ParticipantInfo(1, 0, TRUE, TRUE, FALSE)>> ELSE <<>>)
    \o [i \in 1..n |-> ParticipantInfo(i, base + i - 1, FALSE, hasVideo, hasActiveAudio)]

\* the slots of a list are either all without video and with active audio, counted
\* from index 0, or all with video, counted from index 5, every second one silent
SlotLists ==
    {SlotList(n, share, 0, FALSE, TRUE) : n \in 0..MaxRegular, share \in BOOLEAN}
    \cup {[i \in 1..Len(SlotList(n, share, 5, TRUE, TRUE)) |->
              [SlotList(n, share, 5, TRUE, TRUE)[i] EXCEPT
                  !.hasActiveAudio = ~SlotList(n, share, 5, TRUE, TRUE)[i].isScreenShare
                                     /\ i % 2 = 1]] :
            n \in 0..MaxRegular, share \in BOOLEAN}

\* keys of state.videoFrames: the identity, or `${identity}-screenshare`
CameraKey(identity) == <<identity>>

ScreenShareKey(identity) == <<identity, "-screenshare">>

FrameKeys == {CameraKey(p) : p \in Tracks} \cup {ScreenShareKey(p) : p \in Tracks}

Frames == 1..MaxFrames

\* state.videoFrames.get(key): 0 when the map has no entry for the key
CachedFrame(vf, key) == IF key \in FrameKeys THEN vf[key] ELSE 0

NoShare == [frame |-> 0, x |-> 0, y |-> 0, width |-> 0, height |-> 0, label |-> ""]

\* the canvas before the first paint
NotPainted == [background |-> "", message |-> "", share |-> NoShare, tiles |-> <<>>]

\* calculateGridLayout: the smallest square-ish grid that holds n tiles
calculateGridLayout(n) ==
    LET cols == CHOOSE c \in 1..(MaxRegular + 1) :
                    c * c >= n /\ \A d \in 1..(c - 1) : d * d < n
    IN  [cols |-> cols, rows |-> Max(1, (n + cols - 1) \div cols)]

\* one regular tile as painted: the cached frame when the slot has video and a
\* frame for its key is cached, the placeholder when the slot has no video, the
\* border when the slot's audio is active. x and width are in units of 1/xScale
\* pixel, y and height in units of 1/yScale pixel
PaintedTile(vf, participant, x, y, width, height, xScale, yScale) ==
    LET colorIndex == participant.participantIndex % Len(PROFILE_COLORS)
        backgroundColor == ColorName("meet-background-", colorIndex + 1)
        profileColor == ColorName("profile-background-", colorIndex + 1)
        borderColor == ColorName("tile-border-", colorIndex + 1)
        bitmap == CachedFrame(vf, CameraKey(participant.identity))
    IN  [identity |-> participant.identity,
         participantIndex |-> participant.participantIndex,
         x |-> x, y |-> y, width |-> width, height |-> height,
         xScale |-> xScale, yScale |-> yScale,
         frame |-> IF participant.hasVideo THEN bitmap ELSE 0,
         background |-> IF participant.hasVideo THEN ""
                        ELSE PaletteColor(MEET_BACKGROUND_COLORS, backgroundColor,
                                          "meet-background-"),
         profile |-> IF participant.hasVideo THEN ""
                     ELSE PaletteColor(PROFILE_COLORS, profileColor,
                                       "profile-background-"),
         border |-> IF participant.hasActiveAudio
                    THEN PaletteColor(PROFILE_COLORS, borderColor, "tile-border-")
                    ELSE ""]

\* mutant: the sidebar is divided among all regular participants
SidebarTiles_NoLimit(vf, regularParticipants) ==
    LET n == Len(regularParticipants)
        itemHeight == CANVAS_HEIGHT - GAP * (n + 1)
    IN  [index \in 1..n |->
            PaintedTile(vf, regularParticipants[index],
                        CANVAS_WIDTH - SIDEBAR_WIDTH,
                        GAP * n + (index - 1) * (itemHeight + GAP * n),
                        SIDEBAR_WIDTH - GAP, itemHeight, 1, n)]

\* the sidebar of the screen-share layout; sidebarItemHeight is a fraction with
\* denominator numParticipantsInSidebar, so y and height are kept multiplied by it
SidebarTiles(vf, regularParticipants) ==
    LET numParticipantsInSidebar ==
            Min(Len(regularParticipants), SCREEN_SHARE_PAGE_SIZE)
        itemHeight == CANVAS_HEIGHT - GAP * (numParticipantsInSidebar + 1)
        sliced == SubSeq(regularParticipants, 1,
                         Min(Len(regularParticipants), Len(PROFILE_COLORS)))
    IN  [index \in 1..Len(sliced) |->
            PaintedTile(vf, sliced[index],
                        GAP + (CANVAS_WIDTH - SIDEBAR_WIDTH - GAP * 2) + GAP,
                        GAP * numParticipantsInSidebar
                          + (index - 1) * (itemHeight + GAP * numParticipantsInSidebar),
                        SIDEBAR_WIDTH - GAP, itemHeight, 1, numParticipantsInSidebar)]

\* the grid layout: the cell is canvas / cols wide and canvas / rows high
GridTiles(vf, regularParticipants) ==
    LET grid == calculateGridLayout(Len(regularParticipants))
    IN  [i \in 1..Len(regularParticipants) |->
            LET col == (i - 1) % grid.cols
                row == (i - 1) \div grid.cols
            IN  PaintedTile(vf, regularParticipants[i],
                            col * CANVAS_WIDTH + GAP * grid.cols,
                            row * CANVAS_HEIGHT + GAP * grid.rows,
                            CANVAS_WIDTH - GAP * grid.cols,
                            CANVAS_HEIGHT - GAP * grid.rows,
                            grid.cols, grid.rows)]

\* mutant: a screen share always takes the full frame
drawRecordingCanvas_ShareOnly(rs, vf) ==
    LET participants == rs.participants
        shares == SelectSeq(participants, LAMBDA p : p.isScreenShare)
        regularParticipants == SelectSeq(participants, LAMBDA p : ~p.isScreenShare)
    IN  IF shares # <<>>
        THEN [background |-> "#000000", message |-> "",
              share |-> [frame |-> CachedFrame(vf, ScreenShareKey(shares[1].identity)),
                         x |-> 0, y |-> 0, width |-> CANVAS_WIDTH,
                         height |-> CANVAS_HEIGHT, label |-> "(is presenting)"],
              tiles |-> <<>>]
        ELSE [background |-> "#000000", message |-> "", share |-> NoShare,
              tiles |-> GridTiles(vf, regularParticipants)]

\* drawRecordingCanvas: what one paint leaves on the canvas
drawRecordingCanvas(rs, vf) ==
    LET participants == rs.participants
        shares == SelectSeq(participants, LAMBDA p : p.isScreenShare)
        regularParticipants == SelectSeq(participants, LAMBDA p : ~p.isScreenShare)
    IN  IF shares # <<>> /\ Len(regularParticipants) > 0
        THEN [background |-> "#000000", message |-> "",
              share |-> [frame |-> CachedFrame(vf, ScreenShareKey(shares[1].identity)),
                         x |-> GAP, y |-> GAP,
                         width |-> CANVAS_WIDTH - SIDEBAR_WIDTH - GAP * 2,
                         height |-> CANVAS_HEIGHT - GAP * 2, label |-> "(Screen)"],
              tiles |-> SidebarTiles(vf, regularParticipants)]
        ELSE IF shares # <<>>
        THEN [background |-> "#000000", message |-> "",
              share |-> [frame |-> CachedFrame(vf, ScreenShareKey(shares[1].identity)),
                         x |-> 0, y |-> 0, width |-> CANVAS_WIDTH,
                         height |-> CANVAS_HEIGHT, label |-> "(is presenting)"],
              tiles |-> <<>>]
        ELSE [background |-> "#000000", message |-> "", share |-> NoShare,
              tiles |-> GridTiles(vf, regularParticipants)]

\* ---------------------------------------------------------- codec selection
\* a mime type `video/${container};codecs=${codecs}`, or `video/${container}`
\* when codecs is empty
MimeType(container, codecs) == [container |-> container, codecs |-> codecs]

mp4Codecs ==
    <<MimeType("mp4", "h264,aac"), MimeType("mp4", "avc1.42E01E,mp4a.40.2"),
      MimeType("mp4", "avc1"), MimeType("mp4", "")>>

webmCodecs ==
    <<MimeType("webm", "vp9,opus"), MimeType("webm", "vp8,opus"),
      MimeType("webm", "vp9"), MimeType("webm", "vp8"), MimeType("webm", "")>>

Candidates == {mp4Codecs[i] : i \in 1..Len(mp4Codecs)}
                 \cup {webmCodecs[i] : i \in 1..Len(webmCodecs)}

\* the module has not been evaluated yet
NoDetails == [mimeType |-> MimeType("", ""), extension |-> ""]

\* for (const codec of list) if (isTypeSupported(codec)) { select; break }: the
\* selection after the loop has run from position i on, sel being the one before
RECURSIVE SelectFrom(_, _, _, _, _)
SelectFrom(list, i, supported, ext, sel) ==
    IF i > Len(list) THEN sel
    ELSE IF list[i] \in supported THEN [mimeType |-> list[i], extension |-> ext]
    ELSE SelectFrom(list, i + 1, supported, ext, sel)

\* mutant: the webm list is tried first
getRecordingDetails_WebmFirst(supported) ==
    LET afterWebm == SelectFrom(webmCodecs, 1, supported, "webm", NoDetails)
    IN  IF afterWebm # NoDetails THEN afterWebm
        ELSE SelectFrom(mp4Codecs, 1, supported, "mp4",
                        [mimeType |-> MimeType("webm", ""), extension |-> "webm"])

\* getRecordingDetails
getRecordingDetails(supported) ==
    LET afterMp4 == SelectFrom(mp4Codecs, 1, supported, "mp4",
                               [mimeType |-> MimeType("webm", ""),
                                extension |-> "webm"])
    IN  IF afterMp4.extension # "mp4"
        THEN SelectFrom(webmCodecs, 1, supported, "webm", afterMp4)
        ELSE afterMp4

\* ------------------------------------------------- tracks of the meeting
Identities == 1..MaxParticipants

\* sids of camera tracks
CameraSids == 1..MaxTrackList

\* the sid of the screen-share track a participant publishes
ScreenShareSid(identity) == MaxTrackList + identity

Sids == CameraSids \cup {ScreenShareSid(i) : i \in Identities}

\* TrackReference: the participant, and the publication's track
TrackReference(identity, sid, isMuted) ==
    [identity |-> identity, sid |-> sid, isMuted |-> isMuted]

\* publication.track of a reference that was not found: undefined
NoTrack == [sid |-> 0, isMuted |-> FALSE]

TrackOf(trackRef) == [sid |-> trackRef.sid, isMuted |-> trackRef.isMuted]

\* cameraTracks.find(trackRef => trackRef.participant?.identity === identity)
FindCamera(cams, identity) ==
    LET hits == {k \in 1..Len(cams) : cams[k].identity = identity}
    IN  IF hits = {} THEN NoTrack
        ELSE TrackOf(cams[CHOOSE k \in hits : \A j \in hits : k <= j])

\* mutant: the screen-share slot is appended after the participants' slots
getTracksForRecording_ShareLast(paged, cams, shares) ==
    LET participantTracksForRecording ==
            [index \in 1..Len(paged) |->
                [track |-> FindCamera(cams, paged[index]),
                 participant |-> paged[index],
                 isScreenShare |-> FALSE,
                 participantIndex |-> index - 1]]
    IN  IF shares # <<>>
        THEN participantTracksForRecording
               \o <<[track |-> TrackOf(shares[1]), participant |-> shares[1].identity,
                     isScreenShare |-> TRUE, participantIndex |-> 0]>>
        ELSE participantTracksForRecording

\* getTracksForRecording
getTracksForRecording(paged, cams, shares) ==
    LET participantTracksForRecording ==
            [index \in 1..Len(paged) |->
                [track |-> FindCamera(cams, paged[index]),
                 participant |-> paged[index],
                 isScreenShare |-> FALSE,
                 participantIndex |-> index - 1]]
    IN  IF shares # <<>>
        THEN <<[track |-> TrackOf(shares[1]), participant |-> shares[1].identity,
                isScreenShare |-> TRUE, participantIndex |-> 0]>>
               \o participantTracksForRecording
        ELSE participantTracksForRecording

\* the sids of the slots' tracks that exist and are not muted
ActiveSids(tracks) ==
    {tracks[i].track.sid : i \in {k \in 1..Len(tracks) :
                                     /\ tracks[k].track.sid # 0
                                     /\ ~tracks[k].track.isMuted}}

\* ------------------------------------------------------------- telemetry
\* RELEASE_CATEGORIES
ReleaseCategories == {"Stable", "EarlyAccess"}

NULL_DAILY_COUNTERS == [userLogin |-> 0, userLogout |-> 0]

\* MeetDailyStatsStored
DailyStats(releaseCategory, counters, lastReport) ==
    [releaseCategory |-> releaseCategory, userLogin |-> counters.userLogin,
     userLogout |-> counters.userLogout, lastReport |-> lastReport]

DEFAULT_TELEMETRY == [dailyStats |-> DailyStats("Stable", NULL_DAILY_COUNTERS, 0)]

\* store.get("telemetry") of a store that holds nothing: undefined
NoTelemetry == [dailyStats |-> DailyStats("", NULL_DAILY_COUNTERS, -1)]

\* loadTelemetry: the stored value; DEFAULT_TELEMETRY itself when nothing is
\* stored or store.get throws
loadTelemetry(getThrows) ==
    IF getThrows \/ store = NoTelemetry THEN defaultTelemetry ELSE store

\* getDailyStats
getDailyStats == loadTelemetry(FALSE).dailyStats

\* ---------------------------------------------------------- feature flags
FEATURE_FLAG_APPVERSION_EXTENSION_DISABLED == "InboxDesktopAppVersionExtensionDisabled"

FlagNames == {FEATURE_FLAG_APPVERSION_EXTENSION_DISABLED, "OtherFlag"}

\* the values of an entry's enabled property: the booleans, and a string
EnabledValues == {"boolean:true", "boolean:false", "string:true"}

\* an element of a flag list: null, a number, or an object that has or lacks
\* the properties name and enabled
FlagEntry(type, hasName, hasEnabled, name, enabled) ==
    [type |-> type, hasName |-> hasName, hasEnabled |-> hasEnabled, name |-> name,
     enabled |-> enabled]

FlagEntries ==
    {FlagEntry("null", FALSE, FALSE, "", ""), FlagEntry("number", FALSE, FALSE, "", ""),
     FlagEntry("object", TRUE, FALSE, FEATURE_FLAG_APPVERSION_EXTENSION_DISABLED, "")}
        \cup {FlagEntry("object", TRUE, TRUE, n, e) : n \in FlagNames, e \in EnabledValues}

\* values: null, an array of entries, an object that is not an array
Null == [type |-> "null", items |-> <<>>]

ArrayOf(items) == [type |-> "array", items |-> items]

PlainObject == [type |-> "object", items |-> <<>>]

FlagLists == UNION {[1..n -> FlagEntries] : n \in 0..MaxFlags}

JSONValues == {Null, PlainObject} \cup {ArrayOf(items) : items \in FlagLists}

\* what JSON.parse makes of a text that is not JSON: a SyntaxError
NotJSON == [type |-> "SyntaxError", items |-> <<>>]

\* a string: the empty one, or a text that is the JSON of a value or is not JSON
StringOf(empty, json) == [type |-> "string", empty |-> empty, json |-> json]

Strings == {StringOf(TRUE, NotJSON)} \cup {StringOf(FALSE, v) : v \in JSONValues \cup {NotJSON}}

\* the arguments of updateFlags
FlagInputs == JSONValues \cup Strings

\* JSON.parse(text)
JSONParse(text) == text.json

\* the callback of flags.find over the entries from the i-th on: typeof null is
\* "object", and `"name" in null` throws a TypeError
RECURSIVE FindFlag(_, _, _)
FindFlag(items, i, hasStructure) ==
    IF i > Len(items)
    THEN [threw |-> FALSE, hasStructure |-> hasStructure, flagFound |-> FALSE,
          enabled |-> FALSE]
    ELSE LET x == items[i]
         IN  IF x.type # "object" /\ x.type # "null"
             THEN FindFlag(items, i + 1, hasStructure)
             ELSE IF x.type = "null"
             THEN [threw |-> TRUE, hasStructure |-> hasStructure, flagFound |-> FALSE,
                   enabled |-> FALSE]
             ELSE IF ~x.hasName \/ ~x.hasEnabled
             THEN FindFlag(items, i + 1, hasStructure)
             ELSE IF x.name # FEATURE_FLAG_APPVERSION_EXTENSION_DISABLED
             THEN FindFlag(items, i + 1, TRUE)
             ELSE [threw |-> FALSE, hasStructure |-> TRUE, flagFound |-> TRUE,
                   enabled |-> x.enabled = "boolean:true"]

\* updateFlags(flags): the value of isAppVersionExtensionDisabled after the call,
\* given its value cur before the call
Updated(cur, flags) ==
    IF flags = Null \/ (flags.type = "string" /\ flags.empty)
    THEN cur
    ELSE IF flags.type = "string" /\ JSONParse(flags) = NotJSON
    THEN cur
    ELSE LET parsed == IF flags.type = "string" THEN JSONParse(flags) ELSE flags
         IN  IF parsed.type # "array"
             THEN cur
             ELSE LET found == FindFlag(parsed.items, 1, FALSE)
                  IN  IF found.threw THEN cur
                      ELSE IF found.flagFound THEN found.enabled
                      ELSE IF found.hasStructure THEN FALSE
                      ELSE cur

\* ------------------------------------------------- SpecWorker: a raw client
\* The client posts requests of any type; the responses stay in fromWorker[1],
\* which is then the sequence of all responses the worker has posted.
\* the bytes of the n-th request's chunk: len bytes, each the request number
ChunkOf(n, len) == [i \in 1..len |-> n]

\* recording ids are unique per session: an init never names an id whose file exists
FreshIds == {i \in RecordingIds : \A e \in Extensions : ~opfs[FileName(i, e)].exists}

ClientPost(msg) ==
    /\ sent < MaxRequests
    /\ Len(toWorker[1]) < MaxQueue
    /\ sent' = sent + 1
    /\ toWorker' = [toWorker EXCEPT ![1] = Append(@, msg)]
    /\ UNCHANGED <<platformVars, sideVars, opfs, storage, alive, fromWorker, faults, sessionLog,
                   hookVars>>

ClientInit ==
    \E i \in FreshIds :
        /\ \A m \in {toWorker[1][k] : k \in 1..Len(toWorker[1])} :
                ~(m.type = "init" /\ m.data.recordingId = i)
        /\ ClientPost(Request("init", sent + 1,
                              [NoPayload EXCEPT !.recordingId = i, !.fileExtension = "mp4"]))

ClientAddChunk ==
    \E len \in 1..MaxChunkLen :
        ClientPost(Request("addChunk", sent + 1,
                           [NoPayload EXCEPT !.chunkBuffer = ChunkOf(sent + 1, len)]))

ClientOther ==
    \E t \in (KnownTypes \ {"init", "addChunk"}) \cup UnknownTypes :
        ClientPost(Request(t, sent + 1, NoPayload))

InitFields ==
    /\ hasCreateWritable \in BOOLEAN
    /\ hasCreateSyncAccessHandle \in BOOLEAN
    /\ opfs = [n \in AllFileNames |-> NoFile]
    /\ storage = [w \in Workers |-> NewStorage]
    /\ toWorker = [w \in Workers |-> <<>>]
    /\ fromWorker = [w \in Workers |-> <<>>]
    /\ faults = 0
    /\ sent = 0
    /\ sessionLog = [w \in Workers |-> NewLog]
    /\ isRecording = FALSE
    /\ mediaRecorderRef = 0
    /\ workerStorageRef = 0
    /\ startPc = "idle"
    /\ startResult = "none"
    /\ sessions = 0
    /\ pending = [w \in Workers |-> {}]
    /\ nextId = [w \in Workers |-> 1]
    /\ encoder = [e \in Workers |-> NoEncoder]
    /\ stops = 0
    /\ stopCalls = [k \in 1..MaxStops |-> NoStopCall]
    /\ renderWorkerRef = 0
    /\ audioContextRef = 0
    /\ durationIntervalRef = 0
    /\ resources = [w \in Workers |-> NoResources]
    /\ frameReaders = {}
    /\ cleanupPc = "none"
    /\ settled = [i \in CallIds |-> NotSettled]
    /\ strays = 0
    /\ dropped = 0
    /\ pairOut = [w \in Workers |-> NoObservation]
    /\ canvas = FALSE
    /\ renderState = [participants |-> <<>>]
    /\ videoFrames = [k \in FrameKeys |-> 0]
    /\ renderInterval = FALSE
    /\ liveTimers = 0
    /\ canvasOut = NotPainted
    /\ frameKey = [f \in Frames |-> <<>>]
    /\ released = [f \in Frames |-> 0]
    /\ supportedTypes = Candidates
    /\ recordingDetails = NoDetails
    /\ sessionDetails = [w \in Workers |-> NoDetails]
    /\ pagedParticipants = <<>>
    /\ cameraTracks = <<>>
    /\ screenShareTracks = <<>>
    /\ effectPending = FALSE
    /\ pumps = [sid \in Sids |-> 0]
    /\ store = NoTelemetry
    /\ defaultTelemetry = DEFAULT_TELEMETRY
    /\ loginCalls = 0
    /\ logoutCalls = 0
    /\ storeFaults = 0
    /\ isAppVersionExtensionDisabled = FALSE
    /\ lastFlags = Null

InitWorkerCommon ==
    /\ InitFields
    /\ canProcess = TRUE

InitWorker ==
    /\ InitWorkerCommon
    /\ alive = [w \in Workers |-> w = 1]

NextWorker ==
    \/ ClientInit
    \/ ClientAddChunk
    \/ ClientOther
    \/ onmessage(1)

SpecWorker == InitWorker /\ [][NextWorker]_vars

\* ------------------------------------------------------------------ bridge
\* WorkerRecordingStorage (workerStorage.ts): one isolated worker per instance;
\* a call posts a request under a fresh correlation id and is settled by the
\* response that carries the id.
PendingEntry(id, op, k) == [id |-> id, op |-> op, k |-> k]

\* sendMessage: post the request, remember it as pending
Posted(q, w, type, data) == [q EXCEPT ![w] = Append(@, Request(type, nextId[w], data))]

Remembered(pd, w, op, k) == [pd EXCEPT ![w] = @ \cup {PendingEntry(nextId[w], op, k)}]

\* terminate: the worker context is discarded, nothing in flight is settled
Emptied(q, w) == [q EXCEPT ![w] = <<>>]

Forgotten(pd, w) == [pd EXCEPT ![w] = {}]

\* the oldest response of worker w answers a pending call of kind op
Settles(w, op) ==
    /\ alive[w]
    /\ fromWorker[w] # <<>>
    /\ \E p \in pending[w] : p.id = Head(fromWorker[w]).id /\ p.op = op

SettledEntry(w) == CHOOSE p \in pending[w] : p.id = Head(fromWorker[w]).id

\* getFile, after the worker has closed its handles: the file read from the
\* origin-private root
ReadAll(fs, name) == fs[name]

\* how a response settles the call it answers: a success resolves with the data,
\* an error rejects with the reported error text; drops: the responses the bridge
\* had ignored by then, others: the calls still pending beside this one
SettledBy(resp, drops, others) ==
    IF resp.type = "success"
    THEN [kind |-> "resolved", data |-> resp.data, error |-> NoError,
          drops |-> drops, others |-> others]
    ELSE [kind |-> "rejected", data |-> NoData, error |-> resp.error,
          drops |-> drops, others |-> others]

\* mutant: a response is taken as the answer to the oldest pending call
Matching_Oldest(pd, resp) == {p \in pd : \A q \in pd : p.id <= q.id}

\* the pending calls a response answers: those remembered under its id
Matching(pd, resp) == {p \in pd : p.id = resp.id}

\* the bridge's handler of the worker's messages: the call pending under the
\* response's id is settled and forgotten; a response that matches none is ignored
BridgeReceive ==
    /\ alive[1]
    /\ fromWorker[1] # <<>>
    /\ LET resp == Head(fromWorker[1])
           hit == Matching(pending[1], resp)
       IN  IF hit # {}
           THEN /\ pending' = [pending EXCEPT ![1] = @ \ hit]
                /\ settled' = [i \in CallIds |->
                                 IF \E p \in hit : p.id = i
                                 THEN SettledBy(resp, dropped,
                                                Cardinality(pending[1] \ hit))
                                 ELSE settled[i]]
                /\ UNCHANGED dropped
           ELSE /\ dropped' = dropped + 1
                /\ UNCHANGED <<pending, settled>>
    /\ fromWorker' = [fromWorker EXCEPT ![1] = Tail(@)]
    /\ UNCHANGED <<platformVars, pairVars, compositorVars, codecVars, restVars, opfs, storage, alive, toWorker,
                   faults, sent, sessionLog, isRecording, mediaRecorderRef, workerStorageRef, startPc,
                   startResult, sessions, nextId, encoder, stops, stopCalls, teardownVars,
                   strays>>

\* a call through the bridge: init, addChunk, getFile (closeHandles), clear, or a
\* message of a type the worker does not know
BridgeCall(type, data) ==
    /\ alive[1]
    /\ nextId[1] <= MaxRequests
    /\ Len(toWorker[1]) < MaxQueue
    /\ Len(fromWorker[1]) <= MaxQueue
    /\ toWorker' = Posted(toWorker, 1, type, data)
    /\ pending' = Remembered(pending, 1, type, 0)
    /\ nextId' = [nextId EXCEPT ![1] = @ + 1]
    /\ UNCHANGED <<platformVars, sideVars, opfs, storage, alive, fromWorker, faults, sent,
                   sessionLog, isRecording, mediaRecorderRef, workerStorageRef, startPc,
                   startResult, sessions, encoder, stops, stopCalls, teardownVars>>

BridgeInit ==
    \E i \in FreshIds :
        BridgeCall("init", [NoPayload EXCEPT !.recordingId = i, !.fileExtension = "webm"])

BridgeAddChunk ==
    BridgeCall("addChunk", [NoPayload EXCEPT !.chunkBuffer = ChunkOf(nextId[1], 1)])

BridgeOther ==
    \E t \in {"closeHandles", "clear", "bogus"} : BridgeCall(t, NoPayload)

\* a message reaches the bridge that answers none of its pending requests: it
\* carries no request id, or the id of a call that is no longer pending
StrayResponse ==
    /\ alive[1]
    /\ strays < MaxStrays
    /\ Len(fromWorker[1]) <= MaxQueue
    /\ strays' = strays + 1
    /\ \E id \in 0..(nextId[1] - 1), t \in {"success", "error"} :
          /\ \A p \in pending[1] : p.id # id
          /\ fromWorker' = [fromWorker EXCEPT
                              ![1] = Append(@, Response(t, id, NoData,
                                                        IF t = "error" THEN ErrWrite
                                                        ELSE NoError))]
    /\ UNCHANGED <<platformVars, pairVars, compositorVars, codecVars, restVars, opfs, storage, alive, toWorker,
                   faults, sent, sessionLog, hookVars, settled, dropped>>

NextBridge ==
    \/ BridgeInit
    \/ BridgeAddChunk
    \/ BridgeOther
    \/ StrayResponse
    \/ BridgeReceive
    \/ onmessage(1)

\* the bridge is exercised over a worker of a browser that offers both write APIs
InitBridge ==
    /\ InitWorker
    /\ hasCreateWritable
    /\ hasCreateSyncAccessHandle

SpecBridge == InitBridge /\ [][NextBridge]_vars

\* ---------------------------------------------------------- strategy pair
\* the same calls made on two storages side by side: storage 1 in a browser whose
\* file handles offer createWritable (streaming write), storage 2 in one that
\* offers only createSyncAccessHandle (random-access write)
PairExtension(w) == IF w = 1 THEN "mp4" ELSE "webm"

\* the request handled by storage w; the write API init finds is that of w's browser
PairDispatch(w, fs, msg) ==
    IF msg.type = "init"
    THEN init(storage[w], fs, msg.data.recordingId, PairExtension(w), w = 1, TRUE)
    ELSE Dispatch(storage[w], fs, msg, FALSE)

\* what the caller observes of an outcome; for a read (getFile), the bytes of the
\* file the worker named, or the failure to find it
Observed(out, readBack) ==
    [error |-> out.error,
     read |-> IF readBack /\ out.error = NoError
              THEN IF out.data.fileName \in AllFileNames
                      /\ out.fs[out.data.fileName].exists
                   THEN <<"bytes", out.fs[out.data.fileName].data>>
                   ELSE ErrNotFound
              ELSE <<>>]

PairCall(msg, readBack) ==
    /\ sent < MaxRequests
    /\ sent' = sent + 1
    /\ LET o1 == PairDispatch(1, opfs, msg)
           o2 == PairDispatch(2, o1.fs, msg)
       IN  /\ storage' = [w \in Workers |-> IF w = 1 THEN o1.st ELSE o2.st]
           /\ opfs' = o2.fs
           /\ pairOut' = [w \in Workers |->
                            Observed(IF w = 1 THEN o1 ELSE o2, readBack)]
    /\ UNCHANGED <<platformVars, bridgeVars, compositorVars, codecVars, restVars, alive, toWorker,
                   fromWorker, faults, sessionLog, hookVars>>

PairInit ==
    \E i \in FreshIds :
        PairCall(Request("init", 0, [NoPayload EXCEPT !.recordingId = i]), FALSE)

PairAddChunk ==
    \E len \in 1..MaxChunkLen :
        PairCall(Request("addChunk", 0,
                         [NoPayload EXCEPT !.chunkBuffer = ChunkOf(sent + 1, len)]),
                 FALSE)

\* finalize travels as closeHandles
PairFinalize == PairCall(Request("closeHandles", 0, NoPayload), FALSE)

PairClear == PairCall(Request("clear", 0, NoPayload), FALSE)

\* a read is getFile: closeHandles, then the named file read from the file system
PairRead == PairCall(Request("closeHandles", 0, NoPayload), TRUE)

InitPair ==
    /\ InitWorkerCommon
    /\ hasCreateWritable
    /\ hasCreateSyncAccessHandle
    /\ alive = [w \in Workers |-> TRUE]

NextPair ==
    \/ PairInit
    \/ PairAddChunk
    \/ PairFinalize
    \/ PairClear
    \/ PairRead

SpecPair == InitPair /\ [][NextPair]_vars

\* --------------------------------------------- render worker: its messages
\* everything the render worker's handlers leave alone
RenderIdle ==
    UNCHANGED <<platformVars, bridgeVars, pairVars, codecVars, restVars, opfs, storage, alive,
                toWorker, fromWorker, faults, sent, sessionLog, hookVars>>

\* the frames not delivered yet; the hook delivers each frame once
Undelivered == {f \in Frames : frameKey[f] = <<>>}

\* mutant: the frame that arrives is closed, not the one it replaces
SetFrame_CloseNew(cache, key, frame) ==
    [vf |-> [cache.vf EXCEPT ![key] = frame],
     rel |-> IF cache.vf[key] # 0
             THEN [cache.rel EXCEPT ![frame] = @ + 1]
             ELSE cache.rel]

\* mutant: the replaced frame is not closed
SetFrame_NoClose(cache, key, frame) ==
    [vf |-> [cache.vf EXCEPT ![key] = frame], rel |-> cache.rel]

\* cleanupFrame(oldFrame) when the key has an entry, then videoFrames.set(key, frame)
SetFrame(cache, key, frame) ==
    [vf |-> [cache.vf EXCEPT ![key] = frame],
     rel |-> IF cache.vf[key] # 0
             THEN [cache.rel EXCEPT ![cache.vf[key]] = @ + 1]
             ELSE cache.rel]

\* case 'init': the canvas is handed over once and filled black, the state is taken
RenderInit ==
    /\ ~canvas
    /\ canvas' = TRUE
    /\ canvasOut' = [NotPainted EXCEPT !.background = "#000000"]
    /\ \E st \in SlotLists : renderState' = [participants |-> st]
    /\ UNCHANGED <<videoFrames, renderInterval, liveTimers, frameKey, released>>
    /\ RenderIdle

\* mutant: startRenderLoop does not look at the timer it already has
startRenderLoop_NoGuard ==
    /\ renderInterval' = TRUE
    /\ liveTimers' = liveTimers + 1
    /\ canvasOut' = IF canvas THEN drawRecordingCanvas(renderState, videoFrames)
                    ELSE canvasOut
    /\ UNCHANGED <<canvas, renderState, videoFrames, frameKey, released>>
    /\ RenderIdle

\* case 'render': startRenderLoop paints once and starts the timer, unless it runs
startRenderLoop ==
    /\ IF renderInterval
       THEN UNCHANGED <<renderInterval, liveTimers, canvasOut>>
       ELSE /\ renderInterval' = TRUE
            /\ liveTimers' = liveTimers + 1
            /\ canvasOut' = IF canvas THEN drawRecordingCanvas(renderState, videoFrames)
                            ELSE canvasOut
    /\ UNCHANGED <<canvas, renderState, videoFrames, frameKey, released>>
    /\ RenderIdle

\* a tick of the timer: render()
RenderTick ==
    /\ liveTimers > 0
    /\ canvasOut' = IF canvas THEN drawRecordingCanvas(renderState, videoFrames)
                    ELSE canvasOut
    /\ UNCHANGED <<canvas, renderState, videoFrames, renderInterval, liveTimers, frameKey,
                   released>>
    /\ RenderIdle

\* case 'updateState'
UpdateState ==
    /\ \E st \in SlotLists : renderState' = [participants |-> st]
    /\ UNCHANGED <<canvas, videoFrames, renderInterval, liveTimers, canvasOut, frameKey,
                   released>>
    /\ RenderIdle

\* case 'updateFrame': the key's old frame is closed, the new one takes its place
UpdateFrame ==
    /\ \E key \in FrameKeys, f \in Undelivered :
          /\ \A g \in Undelivered : f <= g
          /\ LET after == SetFrame([vf |-> videoFrames, rel |-> released], key, f)
             IN  /\ videoFrames' = after.vf
                 /\ released' = after.rel
          /\ frameKey' = [frameKey EXCEPT ![f] = key]
    /\ UNCHANGED <<canvas, renderState, renderInterval, liveTimers, canvasOut>>
    /\ RenderIdle

\* case 'updateFrames': the same for each frame of a batch, here of two
UpdateFrames ==
    /\ \E k1 \in FrameKeys, k2 \in FrameKeys, f1 \in Undelivered, f2 \in Undelivered :
          /\ f2 = f1 + 1
          /\ \A g \in Undelivered : f1 <= g
          /\ LET after == SetFrame(SetFrame([vf |-> videoFrames, rel |-> released],
                                            k1, f1),
                                   k2, f2)
             IN  /\ videoFrames' = after.vf
                 /\ released' = after.rel
          /\ frameKey' = [frameKey EXCEPT ![f1] = k1, ![f2] = k2]
    /\ UNCHANGED <<canvas, renderState, renderInterval, liveTimers, canvasOut>>
    /\ RenderIdle

\* mutant: the timer is cleared, the cached frames stay
stopRenderLoop_KeepFrames ==
    /\ renderInterval' = FALSE
    /\ liveTimers' = IF renderInterval THEN liveTimers - 1 ELSE liveTimers
    /\ UNCHANGED <<canvas, renderState, videoFrames, canvasOut, frameKey, released>>
    /\ RenderIdle

\* case 'stop': stopRenderLoop clears the timer, closes every cached frame and
\* empties the cache
stopRenderLoop ==
    /\ renderInterval' = FALSE
    /\ liveTimers' = IF renderInterval THEN liveTimers - 1 ELSE liveTimers
    /\ released' = [f \in Frames |->
                      IF \E k \in FrameKeys : videoFrames[k] = f
                      THEN released[f] + 1 ELSE released[f]]
    /\ videoFrames' = [k \in FrameKeys |-> 0]
    /\ UNCHANGED <<canvas, renderState, canvasOut, frameKey>>
    /\ RenderIdle

InitRender ==
    /\ InitWorkerCommon
    /\ hasCreateWritable
    /\ hasCreateSyncAccessHandle
    /\ alive = [w \in Workers |-> FALSE]

NextRender ==
    \/ RenderInit
    \/ startRenderLoop
    \/ RenderTick
    \/ UpdateState
    \/ UpdateFrame
    \/ UpdateFrames
    \/ stopRenderLoop

SpecRender == InitRender /\ [][NextRender]_vars

\* ------------------------------------------- codec selection: its use
CodecIdle ==
    UNCHANGED <<platformVars, bridgeVars, pairVars, compositorVars, restVars, opfs, storage, alive,
                toWorker, fromWorker, faults, sent, sessionLog, isRecording,
                mediaRecorderRef, workerStorageRef, startPc, startResult, pending,
                nextId, encoder, stops, stopCalls, teardownVars>>

\* the module is evaluated: const { mimeType, extension } = getRecordingDetails()
LoadModule ==
    /\ recordingDetails = NoDetails
    /\ recordingDetails' = getRecordingDetails(supportedTypes)
    /\ UNCHANGED <<supportedTypes, sessionDetails, sessions>>
    /\ CodecIdle

\* the platform's support differs by one type: any set of supported types can be
\* the one the module finds, and support may change while the page is open
SupportChanges ==
    /\ \E c \in Candidates :
          supportedTypes' = IF c \in supportedTypes THEN supportedTypes \ {c}
                            ELSE supportedTypes \cup {c}
    /\ UNCHANGED <<recordingDetails, sessionDetails, sessions>>
    /\ CodecIdle

\* a session starts: new WorkerRecordingStorage(extension), and later
\* new MediaRecorder(combinedStream, { mimeType })
SessionUsesDetails ==
    /\ recordingDetails # NoDetails
    /\ sessions < MaxSessions
    /\ sessions' = sessions + 1
    /\ sessionDetails' = [sessionDetails EXCEPT ![sessions + 1] = recordingDetails]
    /\ UNCHANGED <<supportedTypes, recordingDetails>>
    /\ CodecIdle

InitCodec ==
    /\ InitWorkerCommon
    /\ hasCreateWritable
    /\ hasCreateSyncAccessHandle
    /\ alive = [w \in Workers |-> FALSE]

NextCodec ==
    \/ LoadModule
    \/ SupportChanges
    \/ SessionUsesDetails

SpecCodec == InitCodec /\ [][NextCodec]_vars

\* -------------------------------------------------------- recording hook
\* const { mimeType, extension } = getRecordingDetails()
extension == "webm"

\* the bytes of a chunk carry the encoder and the chunk's number in emission order
Tag(e, n) == e * (MaxChunks + 2) + n

TagEncoder(b) == b \div (MaxChunks + 2)

TagNumber(b) == b % (MaxChunks + 2)

\* mutant: stopRecording only asks whether a MediaRecorder exists
InProgress_RecorderOnly == mediaRecorderRef # 0

\* the condition of stopRecording: a recording is in progress
InProgress == mediaRecorderRef # 0 /\ isRecording

\* new WorkerRecordingStorage(extension); await storage.init()
OpenSession(al, tw, fw, pd) ==
    LET w == sessions + 1
    IN  /\ sessions' = w
        /\ alive' = [al EXCEPT ![w] = TRUE]
        /\ toWorker' = Posted(tw, w, "init",
                              [NoPayload EXCEPT !.recordingId = w,
                                                !.fileExtension = extension])
        /\ fromWorker' = fw
        /\ pending' = Remembered(pd, w, "init", 0)
        /\ nextId' = [nextId EXCEPT ![w] = @ + 1]
        /\ startPc' = "initing"

\* startRecording, up to its first await
StartRecording ==
    /\ startPc = "idle"
    /\ cleanupPc = "none"
    /\ sessions < MaxSessions
    /\ startResult' = "pending"
    /\ IF workerStorageRef # 0
       THEN /\ toWorker' = Posted(toWorker, workerStorageRef, "clear", NoPayload)
            /\ pending' = Remembered(pending, workerStorageRef, "clear", 0)
            /\ nextId' = [nextId EXCEPT ![workerStorageRef] = @ + 1]
            /\ startPc' = "clearing"
            /\ UNCHANGED <<sessions, alive, fromWorker, workerStorageRef>>
       ELSE /\ OpenSession(alive, toWorker, fromWorker, pending)
            /\ UNCHANGED workerStorageRef
    /\ UNCHANGED <<platformVars, sideVars, opfs, storage, faults, sent, sessionLog, isRecording,
                   mediaRecorderRef, encoder, stops, stopCalls, teardownVars>>

\* mutant: a failed clear of the previous storage rejects the start request
StartAfterClear_RejectOnFailure(w) ==
    /\ Settles(w, "clear")
    /\ startPc = "clearing"
    /\ LET ok == Head(fromWorker[w]).type = "success"
           pd == [pending EXCEPT ![w] = @ \ {SettledEntry(w)}]
           fw == [fromWorker EXCEPT ![w] = Tail(@)]
       IN  IF ok
           THEN /\ OpenSession([alive EXCEPT ![w] = FALSE], Emptied(toWorker, w),
                               Emptied(fw, w), Forgotten(pd, w))
                /\ workerStorageRef' = 0
                /\ UNCHANGED startResult
           ELSE /\ pending' = pd
                /\ fromWorker' = fw
                /\ startPc' = "idle"
                /\ startResult' = "rejected"
                /\ UNCHANGED <<workerStorageRef, sessions, alive, toWorker, nextId>>
    /\ UNCHANGED <<platformVars, sideVars, opfs, storage, faults, sent, sessionLog, isRecording,
                   mediaRecorderRef, encoder, stops, stopCalls, teardownVars>>

\* startRecording, after the clear of the previous storage has settled: terminate
\* it when the clear succeeded, drop the reference either way, open the session
StartAfterClear(w) ==
    /\ Settles(w, "clear")
    /\ startPc = "clearing"
    /\ LET ok == Head(fromWorker[w]).type = "success"
           pd == [pending EXCEPT ![w] = @ \ {SettledEntry(w)}]
           fw == [fromWorker EXCEPT ![w] = Tail(@)]
       IN  IF ok
           THEN OpenSession([alive EXCEPT ![w] = FALSE], Emptied(toWorker, w),
                            Emptied(fw, w), Forgotten(pd, w))
           ELSE OpenSession(alive, toWorker, fw, pd)
    /\ workerStorageRef' = 0
    /\ UNCHANGED <<platformVars, sideVars, opfs, storage, faults, sent, sessionLog, isRecording,
                   mediaRecorderRef, startResult, encoder, stops, stopCalls, teardownVars>>

\* startRecording, after init has settled: on success the storage reference is
\* set, the MediaRecorder is created and started and isRecording is set; on
\* failure the error is rethrown
StartAfterInit(w) ==
    /\ Settles(w, "init")
    /\ startPc = "initing"
    /\ pending' = [pending EXCEPT ![w] = @ \ {SettledEntry(w)}]
    /\ fromWorker' = [fromWorker EXCEPT ![w] = Tail(@)]
    /\ startPc' = "idle"
    /\ IF Head(fromWorker[w]).type = "success"
       THEN /\ workerStorageRef' = w
            /\ mediaRecorderRef' = w
            /\ encoder' = [encoder EXCEPT ![w] = [state |-> "recording", emitted |-> 0, size |-> 0,
                                                  onstop |-> 0]]
            /\ renderWorkerRef' = w
            /\ audioContextRef' = w
            /\ durationIntervalRef' = w
            /\ resources' = [resources EXCEPT
                                ![w] = [render |-> TRUE, audio |-> "running",
                                        interval |-> TRUE]]
            /\ \E captured \in SUBSET Tracks : frameReaders' = frameReaders \cup captured
            /\ isRecording' = TRUE
            /\ startResult' = "resolved"
            /\ UNCHANGED cleanupPc
       ELSE /\ startResult' = "rejected"
            /\ UNCHANGED <<workerStorageRef, mediaRecorderRef, encoder, isRecording,
                           teardownVars>>
    /\ UNCHANGED <<platformVars, sideVars, opfs, storage, alive, toWorker, faults, sent, sessionLog,
                   sessions, nextId, stops, stopCalls>>

\* mutant: an empty chunk is handed to the storage as well
OnDataAvailable_PostEmpty(e, len) ==
    IF workerStorageRef # 0
    THEN /\ toWorker' = Posted(toWorker, workerStorageRef, "addChunk",
                               [NoPayload EXCEPT !.chunkBuffer =
                                   ChunkOf(Tag(e, encoder[e].emitted + 1), len)])
         /\ pending' = Remembered(pending, workerStorageRef, "addChunk", 0)
         /\ nextId' = [nextId EXCEPT ![workerStorageRef] = @ + 1]
    ELSE UNCHANGED <<toWorker, pending, nextId>>

\* mediaRecorder.ondataavailable, up to its await: a non-empty chunk is handed to
\* the storage the reference names at that moment
OnDataAvailable(e, len) ==
    IF len > 0 /\ workerStorageRef # 0
    THEN /\ toWorker' = Posted(toWorker, workerStorageRef, "addChunk",
                               [NoPayload EXCEPT !.chunkBuffer =
                                   ChunkOf(Tag(e, encoder[e].emitted + 1), len)])
         /\ pending' = Remembered(pending, workerStorageRef, "addChunk", 0)
         /\ nextId' = [nextId EXCEPT ![workerStorageRef] = @ + 1]
    ELSE UNCHANGED <<toWorker, pending, nextId>>

\* the encoder's timeslice elapses: a dataavailable event
DataAvailable(e) ==
    /\ encoder[e].state = "recording"
    /\ encoder[e].emitted < MaxChunks
    /\ \E len \in 0..MaxBlobLen :
          /\ OnDataAvailable(e, len)
          /\ encoder' = [encoder EXCEPT ![e].emitted = @ + 1, ![e].size = len]
    /\ UNCHANGED <<platformVars, sideVars, opfs, storage, alive, fromWorker, faults, sent,
                   sessionLog, isRecording, mediaRecorderRef, workerStorageRef, startPc,
                   startResult, sessions, stops, stopCalls, teardownVars>>

\* renderWorkerRef.current.terminate(), if a render worker is referenced
RenderTerminated(rs) ==
    IF renderWorkerRef # 0 THEN [rs EXCEPT ![renderWorkerRef].render = FALSE] ELSE rs

\* audioContextRef.current.close(), if an AudioContext is referenced
AudioClosed(rs) ==
    IF audioContextRef # 0 THEN [rs EXCEPT ![audioContextRef].audio = "closed"] ELSE rs

\* clearInterval(durationIntervalRef.current), if a timer id is held
IntervalCleared(rs) ==
    IF durationIntervalRef # 0 THEN [rs EXCEPT ![durationIntervalRef].interval = FALSE]
    ELSE rs

\* after stop(): the encoder fires dataavailable with what it still holds, then
\* the stop event, whose handler (if one is set) first waits 100 ms
EncoderStopped(e) ==
    /\ encoder[e].state = "stopping"
    /\ \E len \in 0..MaxBlobLen :
          /\ OnDataAvailable(e, len)
          /\ encoder' = [encoder EXCEPT ![e].emitted = @ + 1, ![e].size = len,
                                          ![e].state = "inactive"]
    /\ IF encoder[e].onstop # 0
       THEN stopCalls' = [stopCalls EXCEPT ![encoder[e].onstop].status = "delay"]
       ELSE UNCHANGED stopCalls
    /\ UNCHANGED <<platformVars, sideVars, opfs, storage, alive, fromWorker, faults, sent,
                   sessionLog, isRecording, mediaRecorderRef, workerStorageRef, startPc,
                   startResult, sessions, stops, teardownVars>>

\* mutant: a chunk that could not be stored ends the recording
ChunkSettled_AbortOnError(w) ==
    /\ Settles(w, "addChunk")
    /\ pending' = [pending EXCEPT ![w] = @ \ {SettledEntry(w)}]
    /\ fromWorker' = [fromWorker EXCEPT ![w] = Tail(@)]
    /\ isRecording' = (isRecording /\ Head(fromWorker[w]).type = "success")
    /\ UNCHANGED <<platformVars, sideVars, opfs, storage, alive, toWorker, faults, sent,
                   sessionLog, mediaRecorderRef, workerStorageRef, startPc, startResult,
                   sessions, nextId, encoder, stops, stopCalls, teardownVars>>

\* the await of addChunk in ondataavailable settles: a failure is only logged
ChunkSettled(w) ==
    /\ Settles(w, "addChunk")
    /\ pending' = [pending EXCEPT ![w] = @ \ {SettledEntry(w)}]
    /\ fromWorker' = [fromWorker EXCEPT ![w] = Tail(@)]
    /\ UNCHANGED <<platformVars, sideVars, opfs, storage, alive, toWorker, faults, sent, sessionLog,
                   isRecording, mediaRecorderRef, workerStorageRef, startPc, startResult,
                   sessions, nextId, encoder, stops, stopCalls, teardownVars>>

\* stopRecording while a recording is in progress: set onstop, stop the encoder
StopActive(k) ==
    /\ InProgress
    /\ encoder' = [encoder EXCEPT
                     ![mediaRecorderRef].onstop = k,
                     ![mediaRecorderRef].state =
                         IF @ = "recording" THEN "stopping" ELSE @]
    /\ stopCalls' = [stopCalls EXCEPT ![k] = [status |-> "waiting", branch |-> "active",
                                              result |-> "none", data |-> <<>>]]
    /\ UNCHANGED <<alive, toWorker, fromWorker, pending, workerStorageRef>>

\* stopRecording while no recording is in progress: terminate the storage, if
\* any, and resolve with null
StopIdle(k) ==
    /\ ~InProgress
    /\ stopCalls' = [stopCalls EXCEPT ![k] = [status |-> "resolved", branch |-> "idle",
                                              result |-> "null", data |-> <<>>]]
    /\ IF workerStorageRef # 0
       THEN /\ alive' = [alive EXCEPT ![workerStorageRef] = FALSE]
            /\ toWorker' = Emptied(toWorker, workerStorageRef)
            /\ fromWorker' = Emptied(fromWorker, workerStorageRef)
            /\ pending' = Forgotten(pending, workerStorageRef)
            /\ workerStorageRef' = 0
       ELSE UNCHANGED <<alive, toWorker, fromWorker, pending, workerStorageRef>>
    /\ UNCHANGED encoder

StopRecording ==
    /\ stops < MaxStops
    /\ cleanupPc = "none"
    /\ stops' = stops + 1
    /\ (StopActive(stops + 1) \/ StopIdle(stops + 1))
    /\ UNCHANGED <<platformVars, sideVars, opfs, storage, faults, sent, sessionLog, isRecording,
                   mediaRecorderRef, startPc, startResult, sessions, nextId, teardownVars>>

\* the onstop handler after wait(100): without a storage reference it resolves
\* with null at once, otherwise it asks the storage for the file
StopAfterWait(k) ==
    /\ stopCalls[k].status = "delay"
    /\ IF workerStorageRef = 0
       THEN /\ stopCalls' = [stopCalls EXCEPT ![k].status = "resolved",
                                              ![k].result = "null"]
            /\ UNCHANGED <<toWorker, pending, nextId>>
       ELSE /\ stopCalls' = [stopCalls EXCEPT ![k].status = "getFile"]
            /\ toWorker' = Posted(toWorker, workerStorageRef, "closeHandles", NoPayload)
            /\ pending' = Remembered(pending, workerStorageRef, "closeHandles", k)
            /\ nextId' = [nextId EXCEPT ![workerStorageRef] = @ + 1]
    /\ UNCHANGED <<platformVars, sideVars, opfs, storage, alive, fromWorker, faults, sent,
                   sessionLog, isRecording, mediaRecorderRef, workerStorageRef, startPc,
                   startResult, sessions, encoder, stops, teardownVars>>

\* the onstop handler after getFile has settled: the blob is the file (null when
\* getFile failed), the session is torn down and the promise resolves
StopAfterGetFile(w) ==
    /\ Settles(w, "closeHandles")
    /\ LET resp == Head(fromWorker[w])
           k == SettledEntry(w).k
       IN  stopCalls' = [stopCalls EXCEPT
                ![k] = IF resp.type = "success"
                       THEN [@ EXCEPT !.status = "resolved", !.result = "blob",
                                      !.data = ReadAll(opfs, resp.data.fileName).data]
                       ELSE [@ EXCEPT !.status = "resolved", !.result = "null"]]
    /\ pending' = [pending EXCEPT ![w] = @ \ {SettledEntry(w)}]
    /\ fromWorker' = [fromWorker EXCEPT ![w] = Tail(@)]
    /\ frameReaders' = {}
    /\ renderWorkerRef' = 0
    /\ resources' = IntervalCleared(AudioClosed(RenderTerminated(resources)))
    /\ isRecording' = FALSE
    /\ UNCHANGED <<platformVars, sideVars, opfs, storage, alive, toWorker, faults, sent,
                   sessionLog, mediaRecorderRef, workerStorageRef, startPc, startResult,
                   sessions, nextId, encoder, stops, audioContextRef, durationIntervalRef,
                   cleanupPc>>

\* the tail of handleCleanup, from clearInterval on: the storage is asked to clear
\* itself, if one is referenced
CleanupStorage(rs) ==
    /\ resources' = IntervalCleared(rs)
    /\ IF workerStorageRef # 0
       THEN /\ toWorker' = Posted(toWorker, workerStorageRef, "clear", NoPayload)
            /\ pending' = Remembered(pending, workerStorageRef, "cleanupClear", 0)
            /\ nextId' = [nextId EXCEPT ![workerStorageRef] = @ + 1]
            /\ cleanupPc' = "clearing"
       ELSE /\ cleanupPc' = "done"
            /\ UNCHANGED <<toWorker, pending, nextId>>

\* the component unmounts: handleCleanup up to its first await. The frame captures
\* are stopped and the render worker is terminated; closing an AudioContext that
\* is already closed rejects, which ends handleCleanup there
HandleCleanup ==
    /\ cleanupPc = "none"
    /\ frameReaders' = {}
    /\ renderWorkerRef' = 0
    /\ IF audioContextRef = 0
       THEN CleanupStorage(RenderTerminated(resources))
       ELSE /\ resources' = AudioClosed(RenderTerminated(resources))
            /\ cleanupPc' = IF resources[audioContextRef].audio = "closed"
                             THEN "failed" ELSE "audio"
            /\ UNCHANGED <<toWorker, pending, nextId>>
    /\ UNCHANGED <<platformVars, sideVars, opfs, storage, alive, fromWorker, faults, sent,
                   sessionLog, isRecording, mediaRecorderRef, workerStorageRef, startPc,
                   startResult, sessions, encoder, stops, stopCalls, audioContextRef,
                   durationIntervalRef>>

\* handleCleanup after the AudioContext has closed
CleanupAfterAudioClose ==
    /\ cleanupPc = "audio"
    /\ CleanupStorage(resources)
    /\ UNCHANGED <<platformVars, sideVars, opfs, storage, alive, fromWorker, faults, sent,
                   sessionLog, isRecording, mediaRecorderRef, workerStorageRef, startPc,
                   startResult, sessions, encoder, stops, stopCalls, renderWorkerRef,
                   audioContextRef, durationIntervalRef, frameReaders>>

\* handleCleanup after its clear has settled: a failed clear ends it; otherwise the
\* storage the reference names now is terminated and the reference is dropped
CleanupAfterClear(w) ==
    /\ Settles(w, "cleanupClear")
    /\ cleanupPc = "clearing"
    /\ LET ok == Head(fromWorker[w]).type = "success"
           v == workerStorageRef
           pd == [pending EXCEPT ![w] = @ \ {SettledEntry(w)}]
           fw == [fromWorker EXCEPT ![w] = Tail(@)]
       IN  IF ok /\ v # 0
           THEN /\ alive' = [alive EXCEPT ![v] = FALSE]
                /\ toWorker' = Emptied(toWorker, v)
                /\ fromWorker' = Emptied(fw, v)
                /\ pending' = Forgotten(pd, v)
                /\ workerStorageRef' = 0
                /\ cleanupPc' = "done"
           ELSE /\ fromWorker' = fw
                /\ pending' = pd
                /\ cleanupPc' = "failed"
                /\ UNCHANGED <<alive, toWorker, workerStorageRef>>
    /\ UNCHANGED <<platformVars, sideVars, opfs, storage, faults, sent, sessionLog,
                   isRecording, mediaRecorderRef, startPc, startResult, sessions, nextId,
                   encoder, stops, stopCalls, renderWorkerRef, audioContextRef,
                   durationIntervalRef, resources, frameReaders>>

Init ==
    /\ InitWorkerCommon
    /\ alive = [w \in Workers |-> FALSE]

Next ==
    \/ StartRecording
    \/ \E w \in Workers : StartAfterClear(w)
    \/ \E w \in Workers : StartAfterInit(w)
    \/ \E e \in Workers : DataAvailable(e)
    \/ \E e \in Workers : EncoderStopped(e)
    \/ \E w \in Workers : ChunkSettled(w)
    \/ StopRecording
    \/ \E k \in 1..MaxStops : StopAfterWait(k)
    \/ \E w \in Workers : StopAfterGetFile(w)
    \/ \E w \in Workers : onmessage(w)

Spec == Init /\ [][Next]_vars

\* the hook with its unmount: the component may unmount in any state, and what is
\* suspended at that moment still runs to its end
NextAbort ==
    \/ Next
    \/ HandleCleanup
    \/ CleanupAfterAudioClose
    \/ \E w \in Workers : CleanupAfterClear(w)

SpecAbort == Init /\ [][NextAbort]_vars

\* the hook under the scheduling the platform guarantees: a posted message is
\* handled, a settled promise's continuation runs, a timer fires, and an encoder
\* that was told to stop fires its stop event. Calls of the user are not forced.
Fairness ==
    /\ \A w \in Workers : WF_vars(onmessage(w))
    /\ \A w \in Workers : WF_vars(StartAfterClear(w))
    /\ \A w \in Workers : WF_vars(StartAfterInit(w))
    /\ \A w \in Workers : WF_vars(ChunkSettled(w))
    /\ \A w \in Workers : WF_vars(StopAfterGetFile(w))
    /\ \A e \in Workers : WF_vars(EncoderStopped(e))
    /\ \A k \in 1..MaxStops : WF_vars(StopAfterWait(k))

SpecLive == Init /\ [][Next]_vars /\ Fairness

\* ------------------------------------------- tracks during a recording
\* what the track events and the track-change effect leave alone
RoomIdle ==
    UNCHANGED <<platformVars, bridgeVars, pairVars, compositorVars, codecVars, opfs,
                storage, alive, toWorker, fromWorker, faults, sent, sessionLog,
                workerStorageRef, startPc, startResult, pending, nextId, stops,
                stopCalls, audioContextRef, durationIntervalRef, resources, cleanupPc,
                canProcess, telemetryVars, flagVars>>

\* what an event of the room leaves alone
RoomEventIdle ==
    /\ RoomIdle
    /\ UNCHANGED <<isRecording, mediaRecorderRef, encoder, sessions, renderWorkerRef,
                   frameReaders, pumps>>

\* startFrameCaptureWithProcessor for the tracks in sids: nothing without the
\* track processor or without a render worker; else a reader per track, stored
\* under the track's sid, and its pump
Captured(readers, sids, worker) ==
    IF canProcess /\ worker # 0 THEN readers \cup sids ELSE readers

Pumping(pm, sids, worker) ==
    IF canProcess /\ worker # 0
    THEN [sid \in Sids |-> IF sid \in sids THEN pm[sid] + 1 ELSE pm[sid]]
    ELSE pm

\* stopFrameCapture for the tracks in sids: the stored reader is cancelled and
\* its entry deleted
Cancelled(pm, sids) == [sid \in Sids |-> IF sid \in sids THEN pm[sid] - 1 ELSE pm[sid]]

\* the part of startRecording that follows the storage's init: the render worker
\* and the encoder are created, a capture is started for every track of the slot
\* list that exists and is not muted, isRecording is set
TrackStartRecording ==
    /\ sessions < MaxSessions
    /\ LET w == sessions + 1
           recordingTracks == getTracksForRecording(pagedParticipants, cameraTracks,
                                                    screenShareTracks)
       IN  /\ sessions' = w
           /\ renderWorkerRef' = w
           /\ mediaRecorderRef' = w
           /\ encoder' = [encoder EXCEPT ![w] = [state |-> "recording", emitted |-> 0, size |-> 0,
                                                 onstop |-> 0]]
           /\ frameReaders' = Captured(frameReaders, ActiveSids(recordingTracks), w)
           /\ pumps' = Pumping(pumps, ActiveSids(recordingTracks), w)
    /\ isRecording' = TRUE
    /\ effectPending' = (effectPending \/ ~isRecording)
    /\ RoomIdle
    /\ UNCHANGED <<pagedParticipants, cameraTracks, screenShareTracks>>

\* a participant publishes a camera or a screen-share track
TrackPublished ==
    /\ \E i \in Identities, m \in BOOLEAN :
          \/ /\ Len(cameraTracks) < MaxTrackList
             /\ \E sid \in CameraSids :
                   /\ \A k \in 1..Len(cameraTracks) : cameraTracks[k].sid # sid
                   /\ cameraTracks' = Append(cameraTracks, TrackReference(i, sid, m))
             /\ UNCHANGED screenShareTracks
          \/ /\ Len(screenShareTracks) < MaxTrackList
             /\ \A k \in 1..Len(screenShareTracks) : screenShareTracks[k].identity # i
             /\ screenShareTracks' =
                   Append(screenShareTracks, TrackReference(i, ScreenShareSid(i), m))
             /\ UNCHANGED cameraTracks
    /\ effectPending' = TRUE
    /\ UNCHANGED pagedParticipants
    /\ RoomEventIdle

\* a track is unpublished
TrackUnpublished ==
    /\ \/ /\ \E k \in 1..Len(cameraTracks) : cameraTracks' = Without(cameraTracks, k)
          /\ UNCHANGED screenShareTracks
       \/ /\ \E k \in 1..Len(screenShareTracks) :
                screenShareTracks' = Without(screenShareTracks, k)
          /\ UNCHANGED cameraTracks
    /\ effectPending' = TRUE
    /\ UNCHANGED pagedParticipants
    /\ RoomEventIdle

\* a track is muted or unmuted
TrackMuteChanged ==
    /\ \/ /\ \E k \in 1..Len(cameraTracks) :
                cameraTracks' = [cameraTracks EXCEPT ![k].isMuted = ~@]
          /\ UNCHANGED screenShareTracks
       \/ /\ \E k \in 1..Len(screenShareTracks) :
                screenShareTracks' = [screenShareTracks EXCEPT ![k].isMuted = ~@]
          /\ UNCHANGED cameraTracks
    /\ effectPending' = TRUE
    /\ UNCHANGED pagedParticipants
    /\ RoomEventIdle

\* the lists of distinct identities: the pages the grid can show
Pages ==
    {<<>>} \cup {<<i>> : i \in Identities}
           \cup ({<<i, j>> : i, j \in Identities} \ {<<i, i>> : i \in Identities})

\* the participants of the page change
PageChanged ==
    /\ \E page \in Pages \ {pagedParticipants} : pagedParticipants' = page
    /\ effectPending' = TRUE
    /\ UNCHANGED <<cameraTracks, screenShareTracks>>
    /\ RoomEventIdle

\* the track-change effect: captures of sids that are no longer active are
\* stopped, captures are started for the active sids that had none
TrackChangeEffect ==
    /\ effectPending
    /\ effectPending' = FALSE
    /\ IF ~isRecording
       THEN UNCHANGED <<frameReaders, pumps>>
       ELSE LET tracks == getTracksForRecording(pagedParticipants, cameraTracks,
                                                screenShareTracks)
                currentTrackIds == frameReaders
                newTrackIds == ActiveSids(tracks)
                stopped == currentTrackIds \ newTrackIds
                started == newTrackIds \ currentTrackIds
            IN  /\ frameReaders' = Captured(currentTrackIds \ stopped, started,
                                            renderWorkerRef)
                /\ pumps' = Pumping(Cancelled(pumps, stopped), started, renderWorkerRef)
    /\ UNCHANGED <<pagedParticipants, cameraTracks, screenShareTracks, isRecording,
                   mediaRecorderRef, encoder, sessions, renderWorkerRef>>
    /\ RoomIdle

InitTracks ==
    /\ InitFields
    /\ canProcess \in BOOLEAN
    /\ hasCreateWritable /\ hasCreateSyncAccessHandle
    /\ alive = [w \in Workers |-> FALSE]

NextTracks ==
    \/ TrackStartRecording
    \/ TrackPublished
    \/ TrackUnpublished
    \/ TrackMuteChanged
    \/ PageChanged
    \/ TrackChangeEffect

SpecTracks == InitTracks /\ [][NextTracks]_vars

\* ------------------------------------------------ SpecTelemetry: daily stats
TelemetryIdle ==
    UNCHANGED <<platformVars, opfs, storage, alive, toWorker, fromWorker, faults, sent,
                sessionLog, hookVars, bridgeVars, pairVars, compositorVars, codecVars,
                roomVars, flagVars>>

\* { ...stats, ...changes }
Spread(stats, changes) ==
    [k \in DOMAIN stats |-> IF k \in DOMAIN changes THEN changes[k] ELSE stats[k]]

\* the stats that updateStats hands to its change callback
LoadedStats(getThrows) == loadTelemetry(getThrows).dailyStats

\* updateStats("dailyStats", change), changes being what change(stats) returned:
\* load, spread the changes over the stats, assign them into the loaded object,
\* store it; a throwing store.set is logged. When the loaded object is
\* DEFAULT_TELEMETRY, the assignment changes it.
updateStats(changes, getThrows, setThrows) ==
    LET telemetry == loadTelemetry(getThrows)
        isDefault == getThrows \/ store = NoTelemetry
        updated == [telemetry EXCEPT !.dailyStats = Spread(@, changes)]
    IN  /\ (getThrows \/ setThrows) => storeFaults < MaxStoreFaults
        /\ storeFaults' = IF getThrows \/ setThrows THEN storeFaults + 1 ELSE storeFaults
        /\ defaultTelemetry' = IF isDefault THEN updated ELSE defaultTelemetry
        /\ store' = IF setThrows THEN store ELSE updated

updateDailyStats(changes, getThrows, setThrows) == updateStats(changes, getThrows, setThrows)

dailyStatsReported ==
    /\ \E timestamp \in 1..MaxTimestamp, getThrows \in BOOLEAN, setThrows \in BOOLEAN :
          updateDailyStats([userLogin |-> NULL_DAILY_COUNTERS.userLogin,
                            userLogout |-> NULL_DAILY_COUNTERS.userLogout,
                            lastReport |-> timestamp],
                           getThrows, setThrows)
    /\ loginCalls' = 0
    /\ logoutCalls' = 0
    /\ TelemetryIdle

userLogin ==
    /\ loginCalls < MaxCalls
    /\ \E getThrows \in BOOLEAN, setThrows \in BOOLEAN :
          updateDailyStats([userLogin |-> LoadedStats(getThrows).userLogin + 1],
                           getThrows, setThrows)
    /\ loginCalls' = loginCalls + 1
    /\ UNCHANGED logoutCalls
    /\ TelemetryIdle

userLogout ==
    /\ logoutCalls < MaxCalls
    /\ \E getThrows \in BOOLEAN, setThrows \in BOOLEAN :
          updateDailyStats([userLogin |-> LoadedStats(getThrows).userLogin + 1],
                           getThrows, setThrows)
    /\ logoutCalls' = logoutCalls + 1
    /\ UNCHANGED loginCalls
    /\ TelemetryIdle

\* checkDailyStats: the release category of the settings is written to the stats
checkDailyStats ==
    /\ \E releaseCategory \in ReleaseCategories,
          getThrows \in BOOLEAN, setThrows \in BOOLEAN :
          updateDailyStats([releaseCategory |-> releaseCategory], getThrows, setThrows)
    /\ UNCHANGED <<loginCalls, logoutCalls>>
    /\ TelemetryIdle

InitTelemetry ==
    /\ InitFields
    /\ canProcess = TRUE
    /\ hasCreateWritable /\ hasCreateSyncAccessHandle
    /\ alive = [w \in Workers |-> FALSE]

NextTelemetry ==
    \/ dailyStatsReported
    \/ userLogin
    \/ userLogout
    \/ checkDailyStats

SpecTelemetry == InitTelemetry /\ [][NextTelemetry]_vars

\* --------------------------------------------------- SpecFlags: updateFlags
updateFlags ==
    /\ \E flags \in FlagInputs :
          /\ isAppVersionExtensionDisabled' = Updated(isAppVersionExtensionDisabled, flags)
          /\ lastFlags' = flags
    /\ UNCHANGED <<platformVars, opfs, storage, alive, toWorker, fromWorker, faults, sent,
                   sessionLog, hookVars, bridgeVars, pairVars, compositorVars, codecVars,
                   roomVars, telemetryVars>>

InitFlags ==
    /\ InitFields
    /\ canProcess = TRUE
    /\ hasCreateWritable /\ hasCreateSyncAccessHandle
    /\ alive = [w \in Workers |-> FALSE]

NextFlags == updateFlags

SpecFlags == InitFlags /\ [][NextFlags]_vars

\* ================================================================== claims
\* worker w handles its oldest request in this step and posts one response
Handles(w) ==
    /\ toWorker[w] # <<>>
    /\ toWorker'[w] = Tail(toWorker[w])
    /\ Len(fromWorker'[w]) = Len(fromWorker[w]) + 1

\* the response posted in a step in which Handles(w) holds
Posts(w) == fromWorker'[w][Len(fromWorker'[w])]

ResponsesOf(w) == {fromWorker[w][i] : i \in 1..Len(fromWorker[w])}

\* C1: round-trip law. When every addChunk since a successful init was accepted
\* and closeHandles has succeeded, the file read back is exactly the accepted
\* chunks' bytes in call order, under the streaming and the random-access strategy.
C1_RoundTrip ==
    \A w \in Workers :
        LET lg == sessionLog[w]
        IN  (lg.inited /\ lg.finalized /\ ~lg.cleared /\ ~lg.refused)
                => ReadAll(opfs, storage[w].fileName)
                       = [exists |-> TRUE, data |-> lg.accepted]

\* C1 witness: a finalised random-access session that accepted two chunks (three
\* bytes, two different chunks)
C1_Witness ==
    /\ storage[1].useSyncAPI
    /\ sessionLog[1].inited /\ sessionLog[1].finalized
    /\ ~sessionLog[1].cleared /\ ~sessionLog[1].refused
    /\ Len(sessionLog[1].accepted) >= 3
    /\ sessionLog[1].accepted[1] # sessionLog[1].accepted[3]

\* bytes of one encoder appear in the encoder's emission order
InOrder(d) ==
    \A i, j \in 1..Len(d) :
        (i < j /\ TagEncoder(d[i]) = TagEncoder(d[j])) => TagNumber(d[i]) <= TagNumber(d[j])

\* C2: chunk delivery preserves emission order. In every file, every stream
\* buffer and every session's accepted bytes, the bytes of a chunk the encoder
\* emitted earlier precede those of a chunk it emitted later.
C2_ChunkOrder ==
    /\ \A f \in AllFileNames : InOrder(opfs[f].data)
    /\ \A w \in Workers : InOrder(storage[w].writable.buf)
    /\ \A w \in Workers : InOrder(sessionLog[w].accepted)

\* C2 witness: two chunks of one encoder are stored while the round trips of both
\* addChunk calls are still pending (the second was issued before the first settled)
C2_Witness ==
    \E w \in Workers :
        /\ Cardinality({p \in pending[w] : p.op = "addChunk"}) >= 2
        /\ Len(sessionLog[w].accepted) >= 2
        /\ sessionLog[w].accepted[1] # sessionLog[w].accepted[Len(sessionLog[w].accepted)]
        /\ TagEncoder(sessionLog[w].accepted[1])
              = TagEncoder(sessionLog[w].accepted[Len(sessionLog[w].accepted)])

C4_IdleStopNull ==
    [][\A k \in 1..MaxStops :
          (/\ stopCalls[k].status = "none"
           /\ stopCalls'[k].status # "none"
           /\ ~(mediaRecorderRef # 0 /\ isRecording))
          => /\ stopCalls'[k].status = "resolved"
             /\ stopCalls'[k].result = "null"
             /\ isRecording' = FALSE]_vars

\* C4 witness: the first stop ended a recording and returned its file, the second
\* stop found no recording in progress and resolved with null
C4_Witness ==
    /\ stopCalls[1].branch = "active" /\ stopCalls[1].result = "blob"
    /\ stopCalls[2].branch = "idle" /\ stopCalls[2].status = "resolved"
    /\ stopCalls[2].result = "null"
    /\ ~isRecording

\* C5 (as claimed; stated for runs in which no storage operation failed): once a
\* session has had a chunk accepted, no file of an earlier session exists.
C5_StaleClearedFirst ==
    faults = 0 =>
        \A v, w \in Workers :
            (v < w /\ sessionLog[w].accepted # <<>>)
                => ~opfs[FileName(v, extension)].exists

\* C6: without createWritable and createSyncAccessHandle every init is answered
\* with the error, nothing is ever accepted, no start resolves, no MediaRecorder
\* is created and isRecording stays false.
C6_UnsupportedPlatform ==
    (~hasCreateWritable /\ ~hasCreateSyncAccessHandle) =>
        /\ ~isRecording
        /\ mediaRecorderRef = 0
        /\ workerStorageRef = 0
        /\ \A e \in Workers : encoder[e].state = "none"
        /\ startResult # "resolved"
        /\ \A w \in Workers :
              /\ sessionLog[w].accepted = <<>>
              /\ ~sessionLog[w].inited
              /\ \A r \in ResponsesOf(w) : r.type = "error" /\ r.error = ErrNoWriteAPI

\* C6 witness: on a platform without a write API a start request was rejected
C6_Witness ==
    /\ ~hasCreateWritable /\ ~hasCreateSyncAccessHandle
    /\ startResult = "rejected"
    /\ sessionLog[1].everInit

\* C7: after closeHandles has succeeded, an addChunk is answered with an error and
\* leaves the file system unchanged; a successful closeHandles of an initialised
\* worker returns the file name recording-<id>.<extension> the worker holds.
C7_NoChunkAfterFinalize ==
    [][\A w \in Workers :
          /\ (Handles(w) /\ Head(toWorker[w]).type = "addChunk" /\ sessionLog[w].finalized)
                => (Posts(w).type = "error" /\ opfs' = opfs)
          /\ (/\ Handles(w)
              /\ Head(toWorker[w]).type = "closeHandles"
              /\ sessionLog[w].everInit
              /\ Posts(w).type = "success")
                => /\ Posts(w).data.fileName = storage[w].fileName
                   /\ Posts(w).data.fileName \in AllFileNames]_vars

\* C7 witness: the response to a closeHandles (success with the file name) is
\* directly followed by the error response to an addChunk
C7_Witness ==
    /\ sessionLog[1].finalized
    /\ \E i \in 1..Len(fromWorker[1]) :
          /\ i + 1 <= Len(fromWorker[1])
          /\ fromWorker[1][i].type = "success"
          /\ fromWorker[1][i].data.fileName \in AllFileNames
          /\ fromWorker[1][i + 1].error = ErrNoHandle

\* C8: every handled request gets exactly one response, which carries its id and
\* is a success or an error; a step that handles no request posts no response.
C8_OneResponsePerRequest ==
    [][\A w \in Workers :
          \/ /\ toWorker[w] # <<>>
             /\ toWorker'[w] = Tail(toWorker[w])
             /\ Len(fromWorker'[w]) = Len(fromWorker[w]) + 1
             /\ SubSeq(fromWorker'[w], 1, Len(fromWorker[w])) = fromWorker[w]
             /\ Posts(w).id = Head(toWorker[w]).id
             /\ Posts(w).type \in {"success", "error"}
          \/ /\ Len(toWorker'[w]) >= Len(toWorker[w])
             /\ \/ fromWorker'[w] = fromWorker[w]
                \/ fromWorker[w] # <<>> /\ fromWorker'[w] = Tail(fromWorker[w])]_vars

\* C8 witness: a success response and an error response wait in the queue, under
\* different ids, and no request is left unanswered
C8_Witness ==
    /\ toWorker[1] = <<>>
    /\ \E r1, r2 \in ResponsesOf(1) :
          r1.type = "success" /\ r2.type = "error" /\ r1.id # r2.id /\ r1.id > 0 /\ r2.id > 0

\* C9: a request of a type the switch does not name is answered with an error
\* response that carries the request's id and the message
\* "Unknown message type: <type>", and changes no storage state.
C9_UnknownTypeReported ==
    [][\A w \in Workers :
          (Handles(w) /\ Head(toWorker[w]).type
                            \notin {"init", "addChunk", "closeHandles", "clear", "close"})
          => /\ Posts(w) = Response("error", Head(toWorker[w]).id, NoData,
                                    ErrUnknownType(Head(toWorker[w]).type))
             /\ storage' = storage
             /\ opfs' = opfs]_vars

\* C9 witness: the error response to a request of type bogus, on an open session
C9_Witness ==
    /\ sessionLog[1].inited
    /\ \E r \in ResponsesOf(1) :
          r.type = "error" /\ r.error = ErrUnknownType("bogus") /\ r.id > 0

\* C10 (as claimed): a request of type finalize on an initialised session is
\* answered with success and the file name.
C10_FinalizeAccepted ==
    [][\A w \in Workers :
          (Handles(w) /\ Head(toWorker[w]).type = "finalize" /\ sessionLog[w].inited)
          => /\ Posts(w).type = "success"
             /\ Posts(w).data.fileName = storage[w].fileName]_vars

\* C10 (amended): init, addChunk, closeHandles, clear and close are the known
\* types, none of them is answered with the unknown-type error; a closeHandles on
\* an initialised session whose stream has not failed is answered with success
\* and the file name; every response is a success or an error.
C10_KnownTypes ==
    /\ [](\A w \in Workers : \A r \in ResponsesOf(w) : r.type \in {"success", "error"})
    /\ [][\A w \in Workers :
            Handles(w) =>
              /\ Head(toWorker[w]).type \in {"init", "addChunk", "closeHandles",
                                             "clear", "close"}
                    => Posts(w).error # ErrUnknownType(Head(toWorker[w]).type)
              /\ (/\ Head(toWorker[w]).type = "closeHandles"
                  /\ sessionLog[w].inited
                  /\ ~storage[w].writable.errored)
                    => /\ Posts(w).type = "success"
                       /\ Posts(w).data.fileName = storage[w].fileName
                       /\ Posts(w).data.fileName \in AllFileNames]_vars

\* C10 witness: a closeHandles on an initialised session that had accepted a
\* chunk was answered with success and the session's file name
C10_Witness ==
    /\ sessionLog[1].inited /\ sessionLog[1].finalized
    /\ sessionLog[1].accepted # <<>>
    /\ \E r \in ResponsesOf(1) :
          r.type = "success" /\ r.data.fileName = storage[1].fileName
                             /\ r.data.fileName \in AllFileNames

\* the step is the bridge taking the first unread response of worker 1
Received == fromWorker[1] # <<>> /\ fromWorker'[1] = Tail(fromWorker[1])

\* the step is worker 1 handling the first waiting request and posting its response
Answered ==
    /\ toWorker[1] # <<>>
    /\ toWorker'[1] = Tail(toWorker[1])
    /\ Len(fromWorker'[1]) = Len(fromWorker[1]) + 1

\* C11: a response whose id matches no pending call is taken from the queue,
\* leaves the worker running, and settles nothing: the pending calls and all the
\* settlements stay as they were; and a call is settled, and leaves the pending
\* set, only in a step that takes a response carrying that call's own id
C11_UnmatchedIgnored ==
    [][/\ (Received /\ \A p \in pending[1] : p.id # Head(fromWorker[1]).id)
            => /\ pending' = pending
               /\ settled' = settled
               /\ alive' = alive
       /\ \A i \in CallIds :
             settled'[i] # settled[i]
                => /\ Received
                   /\ Head(fromWorker[1]).id = i
                   /\ \E p \in pending[1] : p.id = i
                   /\ settled[i] = NotSettled
       /\ \A p \in pending[1] \ pending'[1] :
             Received /\ Head(fromWorker[1]).id = p.id]_vars

\* C11 witness: the bridge has ignored a response that matched nothing while a
\* call was pending, and that call was settled afterwards by its own response
C11_Witness ==
    \E i \in CallIds :
        /\ settled[i].kind = "resolved"
        /\ settled[i].drops >= 1
        /\ \E j \in CallIds : j < i /\ settled[j].kind # "pending" /\ settled[j].drops = 0

\* C12: an error the worker reports carries the id of the request that raised it
\* and at that moment settles nothing; when the bridge takes it, exactly the call
\* pending under that id is rejected, with the reported error text, and every
\* other call stays as it was; a success response resolves its own call with its
\* data in the same way
C12_ErrorIsolated ==
    [][/\ (Answered /\ fromWorker'[1][Len(fromWorker'[1])].type = "error")
            => /\ fromWorker'[1][Len(fromWorker'[1])].id = Head(toWorker[1]).id
               /\ fromWorker'[1][Len(fromWorker'[1])].error # NoError
               /\ settled' = settled
               /\ pending'[1] = pending[1]
       /\ \A p \in pending[1] :
             (Received /\ Head(fromWorker[1]).id = p.id)
                => /\ pending'[1] = pending[1] \ {p}
                   /\ \A j \in CallIds \ {p.id} : settled'[j] = settled[j]
                   /\ IF Head(fromWorker[1]).type = "error"
                      THEN /\ settled'[p.id].kind = "rejected"
                           /\ settled'[p.id].error = Head(fromWorker[1]).error
                      ELSE /\ settled'[p.id].kind = "resolved"
                           /\ settled'[p.id].data = Head(fromWorker[1]).data]_vars

\* C12 witness: a call was rejected with the worker's error text while another
\* call was pending beside it, and that other call was resolved afterwards
C12_Witness ==
    \E i \in CallIds, k \in CallIds :
        /\ i < k
        /\ settled[i].kind = "rejected"
        /\ settled[i].error \in {ErrNoHandle, ErrWrite, ErrUnknownType("bogus")}
        /\ settled[i].others >= 1
        /\ settled[k].kind = "resolved"

PaintStep ==
    /\ canvas
    /\ renderInterval'
    /\ UNCHANGED <<canvas, renderState, videoFrames>>

RegularOf(rs) == SelectSeq(rs.participants, LAMBDA p : ~p.isScreenShare)

HasShare(rs) == \E i \in 1..Len(rs.participants) : rs.participants[i].isScreenShare

\* C14 (as claimed): a paint made while the slot list is empty leaves the
\* full-frame placeholder message on the canvas, not only the cleared background
C14_PlaceholderWhenEmpty ==
    [][(PaintStep /\ renderState.participants = <<>>)
          => canvasOut'.message # ""]_vars

C16_ColorsByIndexMod6 ==
    /\ \A i \in 1..Len(canvasOut.tiles) :
          LET t == canvasOut.tiles[i]
              c == (t.participantIndex % 6) + 1
          IN  /\ t.background \in {"", MEET_BACKGROUND_COLORS[c]}
              /\ t.profile \in {"", PROFILE_COLORS[c]}
              /\ t.border \in {"", PROFILE_COLORS[c]}
              /\ \A j \in 1..Len(canvasOut.tiles) :
                    canvasOut.tiles[j].participantIndex = t.participantIndex + 6
                       => /\ canvasOut.tiles[j].background = t.background
                          /\ canvasOut.tiles[j].profile = t.profile
                          /\ canvasOut.tiles[j].border = t.border
    /\ \A i \in 0..(MaxRegular + 5) :
          \A prefix \in {"meet-background-", "profile-background-", "tile-border-"} :
             ColorIndexOf(ColorName(prefix, (i % 6) + 1), prefix) % 6 = i % 6

\* C16 witness: the tiles of the participants with index 0 and index 6 are on
\* the canvas, both with placeholder colours and an active-audio border
C16_Witness ==
    \E i, j \in 1..Len(canvasOut.tiles) :
        /\ canvasOut.tiles[i].participantIndex = 0
        /\ canvasOut.tiles[j].participantIndex = 6
        /\ canvasOut.tiles[i].background # ""
        /\ canvasOut.tiles[j].border # ""

\* the latest frame delivered for a key, 0 when none was
LatestFor(key) ==
    IF \E f \in Frames : frameKey[f] = key
    THEN CHOOSE f \in Frames :
            frameKey[f] = key /\ \A g \in Frames : frameKey[g] = key => g <= f
    ELSE 0

\* C17: the cache holds under a key no frame or the frame delivered last for
\* that key, a frame is cached under the key it was delivered for only, a cached
\* frame has not been released and every other delivered frame has been
\* released exactly once; and a step that delivers frames leaves under each of
\* their keys the last frame delivered for it
C17_FrameCache ==
    /\ [](\A k \in FrameKeys :
            /\ videoFrames[k] \in {0, LatestFor(k)}
            /\ \A f \in Frames :
                  frameKey[f] = k
                     => released[f] = IF videoFrames[k] = f THEN 0 ELSE 1)
    /\ [][\A f \in Frames :
             (frameKey[f] = <<>> /\ frameKey'[f] # <<>>)
                => /\ videoFrames'[frameKey'[f]] # 0
                   /\ frameKey'[videoFrames'[frameKey'[f]]] = frameKey'[f]
                   /\ videoFrames'[frameKey'[f]] >= f]_vars

\* C17 witness: participant 1's camera key and screen-share key each hold a
\* frame, and an earlier frame of one of them has been replaced and released
C17_Witness ==
    /\ videoFrames[CameraKey(1)] # 0
    /\ videoFrames[ScreenShareKey(1)] # 0
    /\ videoFrames[CameraKey(1)] # videoFrames[ScreenShareKey(1)]
    /\ \E f \in Frames : released[f] = 1 /\ frameKey[f] # <<>>

\* C24 (as claimed): a regular participant's tile is never blank: every tile a
\* paint puts on the canvas shows the participant's video frame or the
\* participant's placeholder, also when the slot is flagged as having video
\* while no frame of the participant is cached
C24_TileNeverBlank ==
    [][PaintStep
          => \A i \in 1..Len(canvasOut'.tiles) :
                \/ canvasOut'.tiles[i].frame # 0
                \/ canvasOut'.tiles[i].background # ""]_vars

\* the addChunk calls of storage w that have been dispatched and not yet settled
ChunksInFlight(w) == {p \in pending[w] : p.op = "addChunk"}

\* C25 (as claimed): at most one addChunk request is in flight between the hook
\* and a storage at any time
C25_OneChunkInFlight == \A w \in Workers : Cardinality(ChunksInFlight(w)) <= 1

C27_ExclusiveOwner ==
    /\ \A w \in Workers :
          \A i \in 1..Len(sessionLog[w].accepted) :
              TagEncoder(sessionLog[w].accepted[i]) = w
    /\ Cardinality({e \in Workers : encoder[e].state = "recording"}) <= 1

\* the start request of session w has failed: its init was answered with an error
\* and startRecording has rethrown it
StartFailed(w) ==
    /\ sessionLog[w].everInit
    /\ ~sessionLog[w].inited
    /\ \A p \in pending[w] : p.op # "init"
    /\ w < sessions \/ startPc = "idle"

\* C28 (as claimed): a failed start leaks nothing: the state stays idle, and once
\* the next start request has run, or in the step in which the unmount cleanup
\* completes, the file the failed session created is deleted and its storage
\* context is terminated
C28_FailedStartLeaksNothing ==
    [][\A w \in Workers :
          StartFailed(w) =>
              /\ ~isRecording
              /\ (w < sessions /\ startPc = "idle")
                    => /\ ~opfs[FileName(w, extension)].exists
                       /\ ~alive[w]
              /\ (cleanupPc # "done" /\ cleanupPc' = "done")
                    => /\ ~opfs'[FileName(w, extension)].exists
                       /\ ~alive'[w]]_vars

\* C29: clearing stale storage at start is best-effort. In the step in which
\* startRecording receives an error for the clear of the previous storage, the
\* start request is not rejected, the stale reference is dropped and the new
\* session is opened: a new storage context is created and asked to init.
C29_StaleClearBestEffort ==
    [][\A w \in Workers :
          (/\ Settles(w, "clear")
           /\ startPc = "clearing"
           /\ Head(fromWorker[w]).type = "error"
           /\ fromWorker'[w] = Tail(fromWorker[w])
           /\ alive'[w])
             => /\ startResult' = "pending"
                /\ workerStorageRef' = 0
                /\ sessions' = sessions + 1
                /\ alive'[sessions'] /\ ~alive[sessions']
                /\ startPc' = "initing"
                /\ \E p \in pending'[sessions'] : p.op = "init"
                /\ Len(toWorker'[sessions']) = 1
                /\ toWorker'[sessions'][1].type = "init"]_vars

\* C29 witness: the second session is recording although the clear of the first
\* session's storage failed, so the first storage context was never terminated
C29_Witness ==
    /\ sessions = 2
    /\ sessionLog[1].inited
    /\ alive[1]
    /\ workerStorageRef = 2
    /\ startResult = "resolved"
    /\ isRecording
    /\ sessionLog[2].inited

\* C30: random-access cursor invariant. Under the random-access strategy, after
\* any sequence of requests the write cursor equals the number of bytes of the
\* chunks accepted since init (a chunk whose write threw adds nothing); while the
\* handle is open the file is exactly those chunks' bytes in order, so each write
\* was placed at the cursor held before it; and no written byte is left
\* unflushed when addChunk has returned.
C30_CursorInvariant ==
    \A w \in Workers :
        (storage[w].useSyncAPI /\ sessionLog[w].inited) =>
            /\ storage[w].filePosition = Len(sessionLog[w].accepted)
            /\ storage[w].syncAccessHandle.open =>
                  /\ opfs[storage[w].syncAccessHandle.file].data = sessionLog[w].accepted
                  /\ storage[w].syncAccessHandle.unflushed = 0

\* C30 witness: a random-access session in which one write threw and two chunks
\* (three bytes) were written, the handle still open
C30_Witness ==
    /\ storage[1].useSyncAPI
    /\ storage[1].syncAccessHandle.open
    /\ sessionLog[1].refused
    /\ storage[1].filePosition = 3
    /\ sessionLog[1].accepted[1] # sessionLog[1].accepted[3]

\* the number of write handles the fields of a storage name
OpenHandles(st) ==
    (IF st.writable.open THEN 1 ELSE 0) + (IF st.syncAccessHandle.open THEN 1 ELSE 0)

\* C31 (as claimed): the write strategy is fixed per session. Only init selects
\* it; a successful init leaves exactly one handle open, the one of the selected
\* strategy; addChunk opens and closes nothing; a handle is closed only by
\* finalize or clear; and after finalize or clear no handle is open.
C31_StrategyFixed ==
    [][\A w \in Workers :
          Handles(w) =>
              LET m == Head(toWorker[w])
                  ok == Posts(w).type = "success"
              IN  /\ storage'[w].useSyncAPI # storage[w].useSyncAPI => m.type = "init"
                  /\ (m.type = "init" /\ ok)
                        => /\ OpenHandles(storage'[w]) = 1
                           /\ storage'[w].syncAccessHandle.open = storage'[w].useSyncAPI
                  /\ m.type = "addChunk"
                        => /\ storage'[w].writable.open = storage[w].writable.open
                           /\ storage'[w].syncAccessHandle.open
                                 = storage[w].syncAccessHandle.open
                  /\ OpenHandles(storage'[w]) <= 1
                  /\ storage'[w].syncAccessHandle.open => storage'[w].useSyncAPI
                  /\ storage'[w].writable.open => ~storage'[w].useSyncAPI
                  /\ OpenHandles(storage'[w]) < OpenHandles(storage[w])
                        => m.type \in {"closeHandles", "clear"}
                  /\ (m.type \in {"closeHandles", "clear"})
                        => OpenHandles(storage'[w]) = 0]_vars

\* C31 (amended): as above, but a handle is closed by finalize, clear or close,
\* and no handle is open after a finalize or clear that succeeded (one that
\* fails on an errored stream leaves the stream in its field)
C31_StrategyFixedUntilClosed ==
    [][\A w \in Workers :
          Handles(w) =>
              LET m == Head(toWorker[w])
                  ok == Posts(w).type = "success"
              IN  /\ storage'[w].useSyncAPI # storage[w].useSyncAPI => m.type = "init"
                  /\ (m.type = "init" /\ ok)
                        => /\ OpenHandles(storage'[w]) = 1
                           /\ storage'[w].syncAccessHandle.open = storage'[w].useSyncAPI
                  /\ m.type = "addChunk"
                        => /\ storage'[w].writable.open = storage[w].writable.open
                           /\ storage'[w].syncAccessHandle.open
                                 = storage[w].syncAccessHandle.open
                  /\ OpenHandles(storage'[w]) <= 1
                  /\ storage'[w].syncAccessHandle.open => storage'[w].useSyncAPI
                  /\ storage'[w].writable.open => ~storage'[w].useSyncAPI
                  /\ OpenHandles(storage'[w]) < OpenHandles(storage[w])
                        => m.type \in {"closeHandles", "clear", "close"}
                  /\ (m.type \in {"closeHandles", "clear"} /\ ok)
                        => OpenHandles(storage'[w]) = 0]_vars

\* C31 witness: a random-access session took a chunk and was finalised, and a
\* later addChunk found no handle and was refused
C31_Witness ==
    /\ storage[1].useSyncAPI
    /\ sessionLog[1].inited /\ sessionLog[1].finalized
    /\ sessionLog[1].accepted # <<>>
    /\ OpenHandles(storage[1]) = 0
    /\ \E r \in ResponsesOf(1) : r.type = "error" /\ r.error = ErrNoHandle

\* the step is a run of the track-change effect during a recording
Reconciles == effectPending /\ ~effectPending' /\ isRecording

\* the sids eligible for capture: the tracks of the slot list, present and unmuted
Eligible(paged, cams, shares) == ActiveSids(getTracksForRecording(paged, cams, shares))

\* C32 (as claimed): after the reconciliation that follows a change of the tracks
\* during a recording, the captured tracks are exactly the eligible tracks, every
\* one has one reader and no other track has any, and the encoder is untouched
C32_ReconciledToEligible ==
    [][Reconciles
          => /\ frameReaders' = Eligible(pagedParticipants', cameraTracks',
                                          screenShareTracks')
             /\ \A sid \in Sids :
                   pumps'[sid] = IF sid \in frameReaders' THEN 1 ELSE 0
             /\ UNCHANGED <<encoder, mediaRecorderRef, isRecording>>]_vars

\* the frames the cache holds
CachedFrames == {videoFrames[k] : k \in FrameKeys} \ {0}

\* the step handles a stop message that had something to do: the timer is
\* cancelled, or frames are released while none is delivered
StopStep ==
    /\ UNCHANGED <<canvas, renderState, canvasOut, frameKey>>
    /\ \/ renderInterval /\ ~renderInterval'
       \/ \E f \in Frames : released'[f] > released[f]

\* C33: a stop message cancels the paint timer, releases every cached frame
\* (once) and empties the cache; and the canvas is painted only by a step that
\* leaves the timer running, so no tick paints between a stop and the next
\* render message
C33_StopReleasesAll ==
    [][/\ StopStep
          => /\ ~renderInterval'
             /\ \A k \in FrameKeys : videoFrames'[k] = 0
             /\ \A f \in Frames :
                   released'[f] = IF f \in CachedFrames THEN released[f] + 1
                                  ELSE released[f]
       /\ (canvas /\ canvasOut' # canvasOut) => renderInterval']_vars

\* C33 witness: the loop has painted tiles and was stopped while two keys held
\* a frame each: both frames are released, the cache is empty, the timer is off
C33_Witness ==
    /\ ~renderInterval
    /\ canvasOut.tiles # <<>>
    /\ CachedFrames = {}
    /\ frameKey[1] # <<>> /\ frameKey[2] # <<>> /\ frameKey[1] # frameKey[2]
    /\ released[1] = 1 /\ released[2] = 1

\* the frames a paint has put on the canvas
PaintedFrames(out) ==
    ({out.tiles[i].frame : i \in 1..Len(out.tiles)} \cup {out.share.frame}) \ {0}

\* C34: frame replacement is atomic for the paint. A cached frame is never a
\* released one; every frame a paint puts on the canvas is a cached, unreleased
\* frame; and a frame is released only in a step after which the cache does not
\* hold it, the frame having been cached before or delivered by that very step.
C34_ReplacementAtomic ==
    /\ [](\A f \in CachedFrames : released[f] = 0)
    /\ [][/\ PaintStep
              => \A f \in PaintedFrames(canvasOut') :
                    f \in CachedFrames /\ released[f] = 0 /\ released'[f] = 0
           /\ \A g \in Frames :
                 released'[g] > released[g]
                    => /\ g \notin {videoFrames'[k] : k \in FrameKeys}
                       /\ g \in CachedFrames \/ frameKey[g] = <<>>]_vars

\* C34 witness: the canvas shows a frame that replaced the first frame of its
\* key; the first frame is released, the shown one is not
C34_Witness ==
    \E f \in Frames \ {1} :
        /\ f \in PaintedFrames(canvasOut)
        /\ frameKey[1] = frameKey[f]
        /\ released[1] = 1
        /\ released[f] = 0
        /\ renderInterval

\* C35: at most one paint timer is active, and state.renderInterval names it
\* exactly when one is; a render message received while the loop runs starts no
\* timer, a render message received while it does not starts exactly one; and
\* the canvas is painted only when init has handed one over.
C35_OneTimer ==
    /\ [](liveTimers = IF renderInterval THEN 1 ELSE 0)
    /\ [][/\ liveTimers' > liveTimers => (liveTimers = 0 /\ liveTimers' = 1)
          /\ (~canvas /\ canvas' = canvas) => canvasOut' = canvasOut]_vars

\* C35 witness: the loop runs on one timer and has painted tiles, after an
\* earlier stop that released a frame nothing had replaced
C35_Witness ==
    /\ liveTimers = 1
    /\ canvasOut.tiles # <<>>
    /\ \E f \in Frames :
          /\ released[f] = 1
          /\ frameKey[f] # <<>>
          /\ LatestFor(frameKey[f]) = f

\* the screen-share slots of a slot list, in slot order
SharesOf(rs) == SelectSeq(rs.participants, LAMBDA p : p.isScreenShare)

\* C36: layout selection. A paint shows the spotlight with the sidebar iff the
\* slot list has a screen share and at least one regular participant, the
\* full-frame screen share iff it has a screen share and no regular participant,
\* and the grid of all regular participants otherwise; the one screen share
\* painted is the first of the slot list.
C36_LayoutSelection ==
    [][PaintStep =>
          LET out == canvasOut'
              n == Len(RegularOf(renderState))
              spotlight == /\ out.share.label = "(Screen)"
                           /\ out.share.width = CANVAS_WIDTH - SIDEBAR_WIDTH - GAP * 2
                           /\ out.tiles # <<>>
              fullFrame == /\ out.share.label = "(is presenting)"
                           /\ out.share.width = CANVAS_WIDTH
                           /\ out.share.height = CANVAS_HEIGHT
                           /\ out.tiles = <<>>
              grid == /\ out.share = NoShare
                      /\ Len(out.tiles) = n
          IN  /\ spotlight <=> (HasShare(renderState) /\ n >= 1)
              /\ fullFrame <=> (HasShare(renderState) /\ n = 0)
              /\ grid <=> ~HasShare(renderState)
              /\ HasShare(renderState)
                    => out.share.frame =
                          CachedFrame(videoFrames,
                                      ScreenShareKey(SharesOf(renderState)[1].identity))]_vars

\* C36 witness: the spotlight layout is on the canvas, with the screen share's
\* frame and two sidebar tiles
C36_Witness ==
    /\ canvasOut.share.label = "(Screen)"
    /\ canvasOut.share.frame # 0
    /\ Len(canvasOut.tiles) = 2
    /\ HasShare(renderState)
    /\ Len(RegularOf(renderState)) = 2

\* C37: slot computation. For the room's paged participants, camera tracks and
\* screen-share tracks, getTracksForRecording returns one regular slot per paged
\* participant, in page order, with participantIndex the participant's position
\* and the track of the participant's camera (none when they have no camera
\* track), preceded by exactly one screen-share slot when a screen-share track
\* exists and by none otherwise.
C37_SlotComputation ==
    LET slots == getTracksForRecording(pagedParticipants, cameraTracks, screenShareTracks)
        lead == IF Len(screenShareTracks) >= 1 THEN 1 ELSE 0
        HasCamera(identity) ==
            \E k \in 1..Len(cameraTracks) : cameraTracks[k].identity = identity
    IN  /\ Len(slots) = lead + Len(pagedParticipants)
        /\ Cardinality({k \in 1..Len(slots) : slots[k].isScreenShare}) = lead
        /\ lead = 1 => /\ slots[1].isScreenShare
                       /\ slots[1].track.sid = screenShareTracks[1].sid
        /\ \A i \in 1..Len(pagedParticipants) :
              /\ ~slots[lead + i].isScreenShare
              /\ slots[lead + i].participant = pagedParticipants[i]
              /\ slots[lead + i].participantIndex = i - 1
              /\ IF HasCamera(pagedParticipants[i])
                 THEN \E k \in 1..Len(cameraTracks) :
                         /\ cameraTracks[k].identity = pagedParticipants[i]
                         /\ slots[lead + i].track.sid = cameraTracks[k].sid
                 ELSE slots[lead + i].track = NoTrack

\* C37 witness: the slots were computed by the track-change effect of a recording
\* for two screen shares and a page of two participants, one without a camera
C37_Witness ==
    /\ isRecording
    /\ ~effectPending
    /\ Len(screenShareTracks) = 2
    /\ Len(pagedParticipants) = 2
    /\ \E i \in 1..2 : \A k \in 1..Len(cameraTracks) :
          cameraTracks[k].identity # pagedParticipants[i]
    /\ \E i \in 1..2 : \E k \in 1..Len(cameraTracks) :
          cameraTracks[k].identity = pagedParticipants[i]

\* a chunk-ready event: encoder e fires dataavailable
ChunkReady(e) == encoder'[e].emitted = encoder[e].emitted + 1

\* the step posts an addChunk request to storage w
IssuesAddChunk(w) ==
    /\ Len(toWorker'[w]) = Len(toWorker[w]) + 1
    /\ toWorker'[w][Len(toWorker'[w])].type = "addChunk"

\* C38: a chunk-ready event issues an addChunk request iff the chunk is not empty
\* and a storage is referenced; the request goes to the referenced storage with
\* the chunk's bytes; for an empty chunk or without a storage reference nothing
\* is posted or remembered, and in either case the files are unchanged.
C38_ChunkReadyIssues ==
    [][\A e \in Workers :
          ChunkReady(e) =>
              LET wanted == encoder'[e].size > 0 /\ workerStorageRef # 0
              IN  /\ (\E w \in Workers : IssuesAddChunk(w)) <=> wanted
                  /\ \A w \in Workers :
                        IssuesAddChunk(w) =>
                            /\ w = workerStorageRef
                            /\ Len(toWorker'[w][Len(toWorker'[w])].data.chunkBuffer)
                                  = encoder'[e].size
                            /\ Cardinality(ChunksInFlight(w)') =
                                  Cardinality(ChunksInFlight(w)) + 1
                  /\ ~wanted => /\ toWorker' = toWorker
                                /\ pending' = pending
                                /\ nextId' = nextId
                  /\ opfs' = opfs]_vars

\* C38 witness: an encoder's first chunk was posted to the referenced storage
\* and its second chunk, an empty one, was not
C38_Witness ==
    \E e \in Workers :
        /\ encoder[e].emitted = 2
        /\ encoder[e].size = 0
        /\ workerStorageRef = e
        /\ Cardinality(ChunksInFlight(e)) = 1
        /\ Len(toWorker[e]) = 1

\* C39 (as claimed): the daily counters count their own events. While the store
\* has not failed, the stored userLogin is the number of userLogin calls since the
\* last report and the stored userLogout the number of userLogout calls since the
\* last report; and a userLogout call leaves the stored userLogin unchanged.
C39_CountersCountOwnEvents ==
    /\ [](storeFaults = 0 => /\ getDailyStats.userLogin = loginCalls
                             /\ getDailyStats.userLogout = logoutCalls)
    /\ [][(logoutCalls' = logoutCalls + 1 /\ storeFaults' = 0)
              => getDailyStats'.userLogin = getDailyStats.userLogin]_vars

\* the flag list an argument of updateFlags gives, possibly as a JSON string
GivenList(flags) ==
    IF flags.type = "string" /\ ~flags.empty /\ flags.json # NotJSON THEN flags.json
    ELSE flags

\* an object with name and enabled
IsStructured(x) == x.type = "object" /\ x.hasName /\ x.hasEnabled

\* an array that contains at least one object with name and enabled
WellStructured(v) ==
    /\ v.type = "array"
    /\ \E i \in 1..Len(v.items) : IsStructured(v.items[i])

\* the list's entry of the named flag (its first, as find takes it) has enabled
\* exactly true
NamedFlagEnabled(v) ==
    LET hits == {i \in 1..Len(v.items) :
                    /\ IsStructured(v.items[i])
                    /\ v.items[i].name = FEATURE_FLAG_APPVERSION_EXTENSION_DISABLED}
    IN  /\ hits # {}
        /\ v.items[CHOOSE i \in hits : \A k \in hits : i <= k].enabled = "boolean:true"

\* C40 (as claimed): the state machine of updateFlags. A call with a
\* well-structured flag list sets the state to whether the list holds the named
\* flag with enabled exactly true (to false when it lacks the flag); a call with
\* anything else leaves the state unchanged. The state after any sequence of
\* calls is then the verdict of the most recent well-structured list.
C40_FlagStateMachine ==
    [][LET v == GivenList(lastFlags')
       IN  IF WellStructured(v)
           THEN isAppVersionExtensionDisabled' = NamedFlagEnabled(v)
           ELSE isAppVersionExtensionDisabled' = isAppVersionExtensionDisabled]_vars

\* C21: in the step in which the hook learns that storing a chunk has failed,
\* nothing but the bookkeeping of that call changes: isRecording, the encoders,
\* the MediaRecorder and storage references and the storage contexts stay as
\* they were, so the encoder keeps running and its handler keeps forwarding
C21_ChunkFailureTolerated ==
    [][\A w \in Workers :
          (/\ Settles(w, "addChunk")
           /\ Head(fromWorker[w]).type = "error"
           /\ alive'[w]
           /\ fromWorker'[w] = Tail(fromWorker[w])
           /\ pending'[w] = pending[w] \ {SettledEntry(w)})
             => /\ isRecording' = isRecording
                /\ encoder' = encoder
                /\ mediaRecorderRef' = mediaRecorderRef
                /\ workerStorageRef' = workerStorageRef
                /\ alive' = alive
                /\ startResult' = startResult]_vars

\* C21 witness: storing a chunk of the session failed, the recording went on, and
\* a later chunk of the same encoder was forwarded to the storage and accepted
C21_Witness ==
    \E w \in Workers :
        /\ sessionLog[w].refused
        /\ sessionLog[w].accepted # <<>>
        /\ faults >= 1
        /\ TagEncoder(sessionLog[w].accepted[Len(sessionLog[w].accepted)]) = w
        /\ TagNumber(sessionLog[w].accepted[Len(sessionLog[w].accepted)]) >= 2

\* C22 (as claimed): when handleCleanup has ended because one of its steps
\* failed (closing the AudioContext or clearing the storage was rejected), the
\* storage reference has been released and the storage context of the latest
\* session has been terminated
C22_TeardownCompletes ==
    cleanupPc = "failed" =>
        /\ workerStorageRef = 0
        /\ sessions > 0 => ~alive[sessions]

\* the step is the evaluation of the module
Loads == recordingDetails = NoDetails /\ recordingDetails' # NoDetails

\* the position of the first supported candidate of a list, 0 when there is none
FirstSupported(list, supported) ==
    IF \E i \in 1..Len(list) : list[i] \in supported
    THEN CHOOSE i \in 1..Len(list) :
            list[i] \in supported /\ \A j \in 1..(i - 1) : list[j] \notin supported
    ELSE 0

\* C23 (as claimed): for every set of supported types the selected mime type is
\* the first supported candidate of the mp4 list, and only when that list has
\* none the first supported candidate of the webm list
C23_FirstSupportedOnly ==
    [][Loads =>
          LET m == FirstSupported(mp4Codecs, supportedTypes)
              v == FirstSupported(webmCodecs, supportedTypes)
          IN  IF m # 0 THEN recordingDetails'.mimeType = mp4Codecs[m]
              ELSE v # 0 /\ recordingDetails'.mimeType = webmCodecs[v]]_vars

\* C23 (amended): the selected mime type is the first supported candidate of the
\* mp4 list; when that list has none, the first supported candidate of the webm
\* list; when neither list has one, the default video/webm, which the platform
\* does not support. The extension names the container of the selected mime
\* type, and every session records with the details selected when the module
\* was evaluated, whatever the platform supports later
C23_Negotiation ==
    /\ [][Loads =>
            LET m == FirstSupported(mp4Codecs, supportedTypes)
                v == FirstSupported(webmCodecs, supportedTypes)
            IN  recordingDetails'.mimeType =
                    IF m # 0 THEN mp4Codecs[m]
                    ELSE IF v # 0 THEN webmCodecs[v]
                    ELSE MimeType("webm", "")]_vars
    /\ [][recordingDetails # NoDetails => recordingDetails' = recordingDetails]_vars
    /\ [](recordingDetails # NoDetails
            => recordingDetails.extension = recordingDetails.mimeType.container)
    /\ [](\A w \in Workers : sessionDetails[w] \in {NoDetails, recordingDetails})

\* C23 witness: the module found no mp4 candidate and not the first webm candidate
\* supported and selected the second one; two sessions recorded with it, the
\* later one after the platform had come to support an mp4 candidate
C23_Witness ==
    /\ recordingDetails.mimeType = webmCodecs[2]
    /\ recordingDetails.extension = "webm"
    /\ sessionDetails[1] = recordingDetails
    /\ sessionDetails[2] = recordingDetails
    /\ mp4Codecs[1] \in supportedTypes

\* C18 (as claimed; stated for runs in which startRecording is not called a second
\* time): every stopRecording call made while a recording is in progress
\* eventually resolves, also when another stop call follows it before it has
\* resolved.
C18_StopResolves ==
    \A k \in 1..MaxStops :
        []((stopCalls[k].branch = "active" /\ sessions = 1)
              => <>(stopCalls[k].status = "resolved" \/ sessions > 1))

\* C19 (as claimed): in the step in which a stopRecording call made during a
\* recording resolves, the teardown is complete: isRecording is false, no frame
\* capture is left, no render worker is referenced or alive, no AudioContext is
\* running and no duration timer is active.
C19_ResolvedMeansTornDown ==
    [][\A k \in 1..MaxStops :
          (/\ stopCalls[k].branch = "active"
           /\ stopCalls[k].status # "resolved"
           /\ stopCalls'[k].status = "resolved")
          => /\ isRecording' = FALSE
             /\ frameReaders' = {}
             /\ renderWorkerRef' = 0
             /\ \A w \in Workers :
                   /\ ~resources'[w].render
                   /\ resources'[w].audio # "running"
                   /\ ~resources'[w].interval]_vars

\* C20 (as claimed; stated for runs in which no storage operation failed): once
\* the unmount cleanup has run to its end, the storage worker of the latest
\* session is terminated, the session's file does not exist and no render worker
\* is alive.
C20_AbortClears ==
    (cleanupPc = "done" /\ faults = 0 /\ sessions > 0) =>
        /\ ~alive[sessions]
        /\ ~opfs[FileName(sessions, extension)].exists
        /\ \A w \in Workers : ~resources[w].render

====
